---- MODULE Spec2Model ----
(***************************************************************************)
(* Procedural kitchen fixtures (robocasa/models/fixtures/cabinets.py):     *)
(* construction of the cabinet variants, their bounding sites and joints,  *)
(* the doors and shelves merged into them, the open-ness mapping           *)
(* set_door_state / get_door_state, the drawer's update_state and the open *)
(* cabinet's reset regions.                                                *)
(*                                                                         *)
(* Numbers.  Lengths are integers in quarter micrometres (1 m = 4000000),  *)
(* so that every halving the code performs on the inputs used here is      *)
(* exact.  Open-ness fractions passed to set_door_state are percentages    *)
(* (n stands for n/100).  A random draw of rng.uniform is u = j/DrawDen.   *)
(* A joint value is stored as the numerator of a fraction with the fixed   *)
(* denominator QDen, in 1e-4 rad (hinges) or quarter micrometres (slide).  *)
(* Fractions returned by get_door_state are exact rationals [n, d].        *)
(***************************************************************************)
EXTENDS Integers, Sequences, FiniteSets, TLC

VARIABLES
    fx,               \* the fixture instance (kind "none" before construction)
    joints,           \* declared joints of the fixture: role -> [pos, range]
    sites,            \* bounding sites: name -> 3-vector (<<>> when not set)
    qpos,             \* sim.data.qpos of the fixture's joints: role -> value
    pos,              \* position of the fixture (Fixture.pos)
    interior_origin,  \* origin given to the housing cabinet's interior object
    ctor,             \* arguments of the last HousingCabinet constructor call
    call,             \* the last set_door_state call
    ret,              \* the last get_door_state result
    err,              \* exception raised by the last operation ("none" if none)
    cab_ctor,         \* variant and panel arguments of the constructor call
    built,            \* panels and shelves created, merged and appended so far
    site_xpos,        \* sim.data.site_xpos: displacement of the drawer's
                      \* interior sites as of the last forward-kinematics pass
    derived,          \* update_state has run since the last set_door_state
    regions,          \* the last get_reset_regions result
    sample,           \* the last sample_reset_region call and its result
    env               \* the kitchen environment: its fixtures, their joints
                      \* and the outcome of its last handler

vars == <<fx, joints, sites, qpos, pos, interior_origin, ctor, call, ret, err,
          cab_ctor, built, site_xpos, derived, regions, sample, env>>

----------------------------------------------------------------------------
(* Bounds and input sets *)

\* resolution of the random draw: rng.uniform draws u in {0, 1/DrawDen, .., 1}
DrawDen == 2
\* resolution of the grid of open-ness fractions tried as min and max
FracSteps == 2

mm(n) == 4000 * n
um(n) == 4 * n

\* percentages tried as min / max: a regular grid, and 0.9 of the end-to-end
\* example of the documentation
Fracs == {(100 * k) \div FracSteps : k \in 0..FracSteps} \cup {90}

Draws == 0..DrawDen

QDen == 100 * DrawDen

\* overall sizes [w, d, h]: the two end-to-end examples of the documentation,
\* two small boxes whose walls are thick relative to their size, and a flat
\* box that is lower than the thicker wall
Sizes == { <<mm(600), mm(400), mm(800)>>,
           <<mm(500), mm(500), mm(300)>>,
           <<mm(60), mm(60), mm(60)>>,
           <<mm(42), mm(30), mm(32)>>,
           <<mm(42), mm(30), mm(20)>> }

Thicknesses == { mm(30), mm(10) }

Orientations == {"left", "right"}

JointRoles == {"doorhinge", "leftdoorhinge", "rightdoorhinge", "slidejoint"}

SiteNames == {"ext_p0", "ext_px", "ext_py", "ext_pz",
              "int_p0", "int_px", "int_py", "int_pz"}

----------------------------------------------------------------------------
(* Exact rationals *)

RECURSIVE Gcd(_, _)
Gcd(a, b) == IF b = 0 THEN a ELSE Gcd(b, a % b)

Abs(a) == IF a < 0 THEN -a ELSE a

\* n/d in lowest terms with a positive denominator (d # 0)
Rat(n, d) ==
    LET g == Gcd(Abs(n), Abs(d))
        s == IF d < 0 THEN -1 ELSE 1
    IN  [n |-> (s * n) \div g, d |-> (s * d) \div g]

RatLE(a, b) == a.n * b.d <= b.n * a.d
RatEq(a, b) == a.n * b.d = b.n * a.d
Pct(p) == Rat(p, 100)

----------------------------------------------------------------------------
(* Collaborators *)

\* pi / 2 in 1e-4 rad
HalfPi == 15708

\* OU.normalize_joint_value(raw, joint_min, joint_max)
normalize_joint_value(raw, joint_min, joint_max) ==
    Rat(raw - joint_min * QDen, (joint_max - joint_min) * QDen)

\* rng.uniform(low, high) with the draw u = j / DrawDen; low and high carry
\* the denominator 100, the result carries QDen
uniform(low, high, j) == low * DrawDen + (high - low) * j

NoJoint == [pos |-> <<>>, range |-> <<>>]
NoJoints == [r \in JointRoles |-> NoJoint]
NoSites == [s \in SiteNames |-> <<>>]
NoCtor == [made |-> FALSE, size |-> <<>>, padding |-> <<>>, pos |-> <<>>]
NoCall == [made |-> FALSE, min |-> 0, max |-> 0]
NoRet == [made |-> FALSE, parts |-> {}]
ZeroQpos == [r \in JointRoles |-> 0]

NoFixture ==
    [kind |-> "none", orientation |-> "none", size |-> <<>>, thickness |-> 0,
     padding |-> <<>>, interior_size |-> <<>>, panel_type |-> "none",
     solid_body |-> FALSE, num_shelves |-> 0, shelf_z_positions |-> <<>>,
     walls |-> [sizes |-> <<>>, positions |-> <<>>], geoms |-> <<>>]

NoCabCtor ==
    [made |-> FALSE, variant |-> "none", panel_type |-> "none",
     panel_config |-> [handle_hpos |-> "absent", handle_vpos |-> "absent"]]
NoDerived == [made |-> FALSE]
NoRegions == [made |-> FALSE, map |-> <<>>]

\* Fixture.set_bounds_sites(pos_dict): sets the given sites, keeps the others
set_bounds_sites(old, pos_dict) ==
    [s \in SiteNames |-> IF s \in DOMAIN pos_dict THEN pos_dict[s] ELSE old[s]]

\* Python's None for an optional number; a given number v is <<v>>
None == <<>>
Some(v) == <<v>>

\* the assert that opens set_door_state of the three movable variants
ValidArgs(min, max) ==
    0 <= min /\ min <= 100 /\ 0 <= max /\ max <= 100 /\ min <= max

----------------------------------------------------------------------------
(* Cabinet: the arguments shared by the variants, and _add_door *)

\* panel_type values that select a panel class
PanelStyles == {"slab", "shaker", "raised", "divided_window", "full_window"}

\* panel_type values tried: the styles, None (written "None"), the no-panel
\* shortcut and a style that _add_door does not know
PanelTypes == PanelStyles \cup {"None", "no_panel", "glass"}

\* panel_config values tried; "absent" stands for a key the dict lacks
PanelConfigs ==
    { [handle_hpos |-> "absent", handle_vpos |-> "absent"],
      [handle_hpos |-> "left", handle_vpos |-> "absent"],
      [handle_hpos |-> "right", handle_vpos |-> "top"] }

\* every combination of panel_type and panel_config
PanelArgs == [panel_type : PanelTypes, panel_config : PanelConfigs]

\* panel_type="raised" and panel_config=None, the defaults of Cabinet.__init__
DefaultPanelArgs ==
    [panel_type |-> "raised",
     panel_config |-> [handle_hpos |-> "absent", handle_vpos |-> "absent"]]

\* door_gap=0.003, the default of Cabinet.__init__
DoorGap == mm(3)

\* nothing created, merged or appended; err is the exception in flight
NoBuilt ==
    [err |-> "none", panels |-> <<>>, shelves |-> <<>>, merged |-> <<>>,
     appended |-> <<>>]

\* the attributes Cabinet.__init__ stores before it calls _create_cab
Cabinet_init(size, thickness, pa, handle_type) ==
    [size |-> size, thickness |-> thickness, door_gap |-> DoorGap,
     panel_type |-> pa.panel_type, panel_config |-> pa.panel_config,
     handle_type |-> handle_type]

\* the if / elif chain of _add_door: the panel class, "return" for no_panel,
\* "NotImplementedError" for any other value
Cabinet_panel_class(panel_type) ==
    IF panel_type = "slab" \/ panel_type = "None" THEN "SlabCabinetPanel"
    ELSE IF panel_type = "shaker" THEN "ShakerCabinetPanel"
    ELSE IF panel_type = "raised" THEN "RaisedCabinetPanel"
    ELSE IF panel_type = "divided_window" THEN "DividedWindowCabinetPanel"
    ELSE IF panel_type = "full_window" THEN "FullWindowedCabinetPanel"
    ELSE IF panel_type = "no_panel" THEN "return"
    ELSE "NotImplementedError"

\* self.panel_config.get("handle_vpos", "bottom")
Cabinet_handle_vpos(panel_config) ==
    IF panel_config.handle_vpos = "absent" THEN "bottom"
    ELSE panel_config.handle_vpos

\* mutant: a style that is not known is built as a slab
Cabinet_add_door_unknown_as_slab(c, b, d) ==
    IF Cabinet_panel_class(c.panel_type) = "return" THEN b
    ELSE LET door == [name |-> d.door_name, class |-> "SlabCabinetPanel",
                      size |-> <<d.w - c.door_gap, d.th, d.h - c.door_gap>>,
                      pos |-> d.pos, handle_type |-> c.handle_type,
                      handle_hpos |-> d.handle_hpos,
                      handle_vpos |-> d.handle_vpos]
         IN  [b EXCEPT !.panels = Append(@, door),
                       !.merged = Append(@, d.door_name),
                       !.appended = Append(@, [parent |-> d.parent_body,
                                               child |-> d.door_name])]

\* mutant: the no-panel style raises like a style that is not known
Cabinet_add_door_no_panel_raises(c, b, d) ==
    LET panel_class == Cabinet_panel_class(c.panel_type)
        door == [name |-> d.door_name, class |-> panel_class,
                 size |-> <<d.w - c.door_gap, d.th, d.h - c.door_gap>>,
                 pos |-> d.pos, handle_type |-> c.handle_type,
                 handle_hpos |-> d.handle_hpos, handle_vpos |-> d.handle_vpos]
    IN  IF b.err # "none" THEN b
        ELSE IF panel_class \in {"return", "NotImplementedError"}
        THEN [b EXCEPT !.err = "NotImplementedError"]
        ELSE [b EXCEPT !.panels = Append(@, door),
                       !.merged = Append(@, d.door_name),
                       !.appended = Append(@, [parent |-> d.parent_body,
                                               child |-> d.door_name])]

\* mutant: a handle_hpos given in panel_config is kept
Cabinet_add_door_keeps_caller_hpos(c, b, d) ==
    LET panel_class == Cabinet_panel_class(c.panel_type)
        hpos == IF c.panel_config.handle_hpos = "absent" THEN d.handle_hpos
                ELSE c.panel_config.handle_hpos
        door == [name |-> d.door_name, class |-> panel_class,
                 size |-> <<d.w - c.door_gap, d.th, d.h - c.door_gap>>,
                 pos |-> d.pos, handle_type |-> c.handle_type,
                 handle_hpos |-> hpos, handle_vpos |-> d.handle_vpos]
    IN  IF b.err # "none" THEN b
        ELSE IF panel_class = "return" THEN b
        ELSE IF panel_class = "NotImplementedError"
        THEN [b EXCEPT !.err = "NotImplementedError"]
        ELSE [b EXCEPT !.panels = Append(@, door),
                       !.merged = Append(@, d.door_name),
                       !.appended = Append(@, [parent |-> d.parent_body,
                                               child |-> d.door_name])]

\* _add_door(w, h, th, pos, parent_body, handle_hpos, handle_vpos, door_name)
\* on the cabinet c, d holding the arguments; b is what has been built so
\* far, and a call that follows a raised exception does not happen
Cabinet_add_door(c, b, d) ==
    LET panel_class == Cabinet_panel_class(c.panel_type)
        dg == c.door_gap
        \* deepcopy(self.panel_config), then the two keys are overwritten
        panel_config == [c.panel_config EXCEPT !.handle_hpos = d.handle_hpos,
                                               !.handle_vpos = d.handle_vpos]
        door == [name |-> d.door_name, class |-> panel_class,
                 size |-> <<d.w - dg, d.th, d.h - dg>>,
                 pos |-> d.pos, handle_type |-> c.handle_type,
                 handle_hpos |-> panel_config.handle_hpos,
                 handle_vpos |-> panel_config.handle_vpos]
    IN  IF b.err # "none" THEN b
        ELSE IF panel_class = "return" THEN b
        ELSE IF panel_class = "NotImplementedError"
        THEN [b EXCEPT !.err = "NotImplementedError"]
        ELSE [b EXCEPT !.panels = Append(@, door),
                       !.merged = Append(@, d.door_name),
                       !.appended = Append(@, [parent |-> d.parent_body,
                                               child |-> d.door_name])]

----------------------------------------------------------------------------
(* SingleCabinet *)

\* mutant: the interior sites are moved outwards by the wall thickness
SingleCabinet_sites_outset(size, thickness) ==
    LET x == size[1] \div 2
        y == size[2] \div 2
        z == size[3] \div 2
        th == thickness \div 2
    IN  [ext_p0 |-> <<-x, -y, -z>>,
         ext_px |-> <<x, -y, -z>>,
         ext_py |-> <<-x, y, -z>>,
         ext_pz |-> <<-x, -y, z>>,
         int_p0 |-> <<-x - th * 2, -y - th * 2, -z - th * 2>>,
         int_px |-> <<x + th * 2, -y - th * 2, -z - th * 2>>,
         int_py |-> <<-x - th * 2, y + th * 2, -z - th * 2>>,
         int_pz |-> <<-x - th * 2, -y - th * 2, z + th * 2>>]

\* _create_cab: the bounding sites
SingleCabinet_sites(size, thickness) ==
    LET x == size[1] \div 2
        y == size[2] \div 2
        z == size[3] \div 2
        th == thickness \div 2
    IN  [ext_p0 |-> <<-x, -y, -z>>,
         ext_px |-> <<x, -y, -z>>,
         ext_py |-> <<-x, y, -z>>,
         ext_pz |-> <<-x, -y, z>>,
         int_p0 |-> <<-x + th * 2, -y + th * 2, -z + th * 2>>,
         int_px |-> <<x - th * 2, -y + th * 2, -z + th * 2>>,
         int_py |-> <<-x + th * 2, y - th * 2, -z + th * 2>>,
         int_pz |-> <<-x + th * 2, -y + th * 2, z - th * 2>>]

\* mutant: the top and bottom walls are centred on the faces of the box
SingleCabinet_walls_on_faces(size, thickness) ==
    LET x == size[1] \div 2
        y == size[2] \div 2
        z == size[3] \div 2
        th == thickness \div 2
    IN  [sizes |->
            [top |-> <<x, y - th, th>>,
             bottom |-> <<x, y - th, th>>,
             back |-> <<x - 2 * th, th, z - 2 * th>>,
             left |-> <<th, y - th, z - 2 * th>>,
             right |-> <<th, y - th, z - 2 * th>>,
             shelf |-> <<x - 2 * th, y - mm(50), th>>],
         positions |->
            [top |-> <<0, th, z>>,
             bottom |-> <<0, th, -z>>,
             back |-> <<0, y - th, 0>>,
             left |-> <<-x + th, th, 0>>,
             right |-> <<x - th, th, 0>>,
             shelf |-> <<0, mm(50) - th, 0>>]]

\* _create_cab: half-extents and centres of the walls of the housing
SingleCabinet_walls(size, thickness) ==
    LET x == size[1] \div 2
        y == size[2] \div 2
        z == size[3] \div 2
        th == thickness \div 2
    IN  [sizes |->
            [top |-> <<x, y - th, th>>,
             bottom |-> <<x, y - th, th>>,
             back |-> <<x - 2 * th, th, z - 2 * th>>,
             left |-> <<th, y - th, z - 2 * th>>,
             right |-> <<th, y - th, z - 2 * th>>,
             shelf |-> <<x - 2 * th, y - mm(50), th>>],
         positions |->
            [top |-> <<0, th, z - th>>,
             bottom |-> <<0, th, -z + th>>,
             back |-> <<0, y - th, 0>>,
             left |-> <<-x + th, th, 0>>,
             right |-> <<x - th, th, 0>>,
             shelf |-> <<0, mm(50) - th, 0>>]]

\* _create_cab: position and range of the door hinge (range in 1e-4 rad;
\* <<>> where the code leaves the range of the XML file in place)
SingleCabinet_joints(orientation, size, thickness) ==
    LET x == size[1] \div 2
        y == size[2] \div 2
        th == thickness \div 2
    IN  [NoJoints EXCEPT !["doorhinge"] =
            IF orientation = "left"
            THEN [pos |-> <<-x + th, -y, 0>>, range |-> <<-30000, 0>>]
            ELSE [pos |-> <<x - th, -y, 0>>, range |-> <<>>]]

\* _create_cab: the arguments of its _add_door call
SingleCabinet_door(c, orientation) ==
    LET x == c.size[1] \div 2
        y == c.size[2] \div 2
        z == c.size[3] \div 2
        th == c.thickness \div 2
    IN  [w |-> x * 2, h |-> z * 2, th |-> th * 2,
         pos |-> <<0, -y + th, 0>>,
         parent_body |-> "hingedoor",
         handle_hpos |-> IF orientation = "left" THEN "right" ELSE "left",
         handle_vpos |-> Cabinet_handle_vpos(c.panel_config),
         door_name |-> "door"]

\* mutant: the orientation is ignored, the angle is always written positive
SingleCabinet_sign_unsigned(orientation) == 1

\* the sign set_door_state applies to the sampled angle
SingleCabinet_sign(orientation) == IF orientation = "left" THEN -1 ELSE 1

\* mutant: the fully open door is at pi instead of pi / 2
SingleCabinet_set_door_state_half_turn(orientation, q, min, max, j) ==
    LET sign == SingleCabinet_sign(orientation)
    IN  [q EXCEPT !["doorhinge"] =
            sign * uniform(2 * HalfPi * min, 2 * HalfPi * max, j)]

\* mutant: the left-opening door is written with the sign of the right-opening
SingleCabinet_set_door_state_mirrored(orientation, q, min, max, j) ==
    [q EXCEPT !["doorhinge"] = uniform(HalfPi * min, HalfPi * max, j)]

\* set_door_state past its assert: qpos after the write to {name}_doorhinge
SingleCabinet_set_door_state(orientation, q, min, max, j) ==
    LET joint_min == 0
        joint_max == HalfPi
        desired_min == joint_min * 100 + (joint_max - joint_min) * min
        desired_max == joint_min * 100 + (joint_max - joint_min) * max
        sign == SingleCabinet_sign(orientation)
    IN  [q EXCEPT !["doorhinge"] = sign * uniform(desired_min, desired_max, j)]

SingleCabinet_get_door_state(orientation, q) ==
    LET sign == IF orientation = "left" THEN -1 ELSE 1
        hinge_qpos == q["doorhinge"] * sign
        door == normalize_joint_value(hinge_qpos, 0, HalfPi)
    IN  {[part |-> "door", f |-> door]}

----------------------------------------------------------------------------
(* HingeCabinet *)

HingeCabinet_sites(size, thickness) ==
    LET x == size[1] \div 2
        y == size[2] \div 2
        z == size[3] \div 2
        th == thickness \div 2
    IN  [ext_p0 |-> <<-x, -y, -z>>,
         ext_px |-> <<x, -y, -z>>,
         ext_py |-> <<-x, y, -z>>,
         ext_pz |-> <<-x, -y, z>>,
         int_p0 |-> <<-x + th * 2, -y + th * 2, -z + th * 2>>,
         int_px |-> <<x - th * 2, -y + th * 2, -z + th * 2>>,
         int_py |-> <<-x + th * 2, y - th * 2, -z + th * 2>>,
         int_pz |-> <<-x + th * 2, -y + th * 2, z - th * 2>>]

\* _create_cab: half-extents and centres of the walls of the housing
HingeCabinet_walls(size, thickness) ==
    LET x == size[1] \div 2
        y == size[2] \div 2
        z == size[3] \div 2
        th == thickness \div 2
    IN  [sizes |->
            [top |-> <<x, y - th, th>>,
             bottom |-> <<x, y - th, th>>,
             back |-> <<x - 2 * th, th, z - 2 * th>>,
             left |-> <<th, y - th, z - 2 * th>>,
             right |-> <<th, y - th, z - 2 * th>>,
             shelf |-> <<x - 2 * th, y - mm(50), th>>],
         positions |->
            [top |-> <<0, th, z - th>>,
             bottom |-> <<0, th, -z + th>>,
             back |-> <<0, y - th, 0>>,
             left |-> <<-x + th, th, 0>>,
             right |-> <<x - th, th, 0>>,
             shelf |-> <<0, mm(50) - th, 0>>]]

HingeCabinet_joints(size, thickness) ==
    LET x == size[1] \div 2
        y == size[2] \div 2
        th == thickness \div 2
    IN  [NoJoints EXCEPT
            !["leftdoorhinge"] = [pos |-> <<-x + th, -y, 0>>, range |-> <<>>],
            !["rightdoorhinge"] = [pos |-> <<x - th, -y, 0>>, range |-> <<>>]]

\* _create_cab: the arguments of the _add_door call for one side
HingeCabinet_door(c, side) ==
    LET x == c.size[1] \div 2
        y == c.size[2] \div 2
        z == c.size[3] \div 2
        th == c.thickness \div 2
        door_x_positions == [left |-> -x \div 2, right |-> x \div 2]
    IN  [w |-> x, h |-> z * 2, th |-> th * 2,
         pos |-> <<door_x_positions[side], -y + th, 0>>,
         parent_body |-> "hinge" \o side \o "door",
         handle_hpos |-> IF side = "right" THEN "left" ELSE "right",
         handle_vpos |-> Cabinet_handle_vpos(c.panel_config),
         door_name |-> side \o "_door"]

\* mutant: both doors are appended to the body of the left hinge
HingeCabinet_add_doors_one_body(c, b) ==
    Cabinet_add_door(c, Cabinet_add_door(c, b, HingeCabinet_door(c, "left")),
                     [HingeCabinet_door(c, "right") EXCEPT
                         !.parent_body = "hingeleftdoor"])

\* _create_cab: for side in ["left", "right"]: self._add_door(...)
HingeCabinet_add_doors(c, b) ==
    Cabinet_add_door(c, Cabinet_add_door(c, b, HingeCabinet_door(c, "left")),
                     HingeCabinet_door(c, "right"))

\* set_door_state past its assert: two calls of rng.uniform, j1 for the
\* right hinge and then j2 for the left hinge
HingeCabinet_set_door_state(q, min, max, j1, j2) ==
    LET joint_min == 0
        joint_max == HalfPi
        desired_min == joint_min * 100 + (joint_max - joint_min) * min
        desired_max == joint_min * 100 + (joint_max - joint_min) * max
    IN  [q EXCEPT !["rightdoorhinge"] = uniform(desired_min, desired_max, j1),
                  !["leftdoorhinge"] = -uniform(desired_min, desired_max, j2)]

HingeCabinet_get_door_state(q) ==
    LET right_hinge_qpos == q["rightdoorhinge"]
        left_hinge_qpos == -q["leftdoorhinge"]
        left_door == normalize_joint_value(left_hinge_qpos, 0, HalfPi)
        right_door == normalize_joint_value(right_hinge_qpos, 0, HalfPi)
    IN  {[part |-> "left_door", f |-> left_door],
         [part |-> "right_door", f |-> right_door]}

----------------------------------------------------------------------------
(* OpenCabinet *)

\* _create_cab: the bounding sites ("no need to divide size here")
OpenCabinet_sites(size, thickness) ==
    LET x == size[1]
        y == size[2]
        z == size[3]
        th == thickness
    IN  [ext_p0 |-> <<-x, -y, -z>>,
         ext_px |-> <<x, -y, -z>>,
         ext_py |-> <<-x, y, -z>>,
         ext_pz |-> <<-x, -y, z>>,
         int_p0 |-> <<-x + th * 2, -y + th * 2, -z + th * 2>>,
         int_px |-> <<x - th * 2, -y + th * 2, -z + th * 2>>,
         int_py |-> <<-x + th * 2, y - th * 2, -z + th * 2>>,
         int_pz |-> <<-x + th * 2, -y + th * 2, z - th * 2>>]

SHELF_SECTIONS == <<"section_1", "section_2", "section_3", "section_4">>

\* largest num_shelves tried
MaxShelves == 3

\* the calls of sample_reset_region tried: shelf indices from -1 to
\* MaxShelves or none, the four sections, one unknown section or none
SampleCalls ==
    LET Indices == {None} \cup {Some(i) : i \in -1..MaxShelves}
        Sections == {Some(SHELF_SECTIONS[j]) : j \in 1..Len(SHELF_SECTIONS)}
                        \cup {Some("section_5")}
    IN  [form : {"sample_region_kwargs"}, shelf_index : Indices,
         section : Sections \cup {None}]
        \cup [form : {"section"}, shelf_index : Indices, section : Sections]
        \cup [form : {"plain"}, shelf_index : Indices, section : {None}]

NoSample ==
    [made |-> FALSE, form |-> "plain", shelf_index |-> None, section |-> None,
     region |-> <<>>]

\* mutant: the spacing runs up to the top face
OpenCabinet_shelf_z_positions_to_top(size, thickness, num_shelves) ==
    LET z == size[3]
        th == thickness
        start == th \div 2
        stop == z
    IN  [k \in 1..num_shelves |->
            start * num_shelves + (k - 1) * (stop - start)
                - (z \div 2) * num_shelves]

\* _create_cab: np.linspace(start=th / 2, stop=z - th / 2, num=num_shelves,
\* endpoint=False) - z / 2, the samples start + i * (stop - start) / num.
\* Each entry is the numerator of a fraction with denominator num_shelves.
OpenCabinet_shelf_z_positions(size, thickness, num_shelves) ==
    LET z == size[3]
        th == thickness
        start == th \div 2
        stop == z - th \div 2
    IN  [k \in 1..num_shelves |->
            start * num_shelves + (k - 1) * (stop - start)
                - (z \div 2) * num_shelves]

\* "{}_shelf_{}".format(self.name, i)
OpenCabinet_shelf_name(i) == "shelf_" \o ToString(i)

\* _create_cab: for i in range(self.num_shelves): the shelf is created, kept
\* in self.shelves, merged and appended to the cabinet's own object
OpenCabinet_add_shelves(c, b, shelf_z_positions) ==
    LET n == Len(shelf_z_positions)
    IN  [b EXCEPT
            !.shelves = @ \o [k \in 1..n |->
                                [name |-> OpenCabinet_shelf_name(k - 1),
                                 size |-> <<c.size[1], c.size[2], c.thickness>>,
                                 pos |-> <<0, 0, shelf_z_positions[k]>>]],
            !.merged = @ \o [k \in 1..n |-> OpenCabinet_shelf_name(k - 1)],
            !.appended = @ \o [k \in 1..n |->
                                [parent |-> "root",
                                 child |-> OpenCabinet_shelf_name(k - 1)]]]

\* f"shelf_{i}_{section}"; shelf_index is None or <<i>>
OpenCabinet_region_key(shelf_index, section) ==
    "shelf_" \o (IF shelf_index = None THEN "None" ELSE ToString(shelf_index[1]))
             \o "_" \o section

\* mutant: the sections divide the full width
OpenCabinet_get_reset_regions_full_width(f) ==
    LET x == f.size[1]
        y == f.size[2]
        th == f.thickness
        section_width == x \div Len(SHELF_SECTIONS)
        Where == (1..Len(f.shelf_z_positions)) \X (1..Len(SHELF_SECTIONS))
        key(w) == OpenCabinet_region_key(Some(w[1] - 1), SHELF_SECTIONS[w[2]])
        region(w) ==
            [offset |-> <<-x \div 2 + th + (w[2] - 1) * section_width
                              + section_width \div 2,
                          0,
                          f.shelf_z_positions[w[1]] + th * f.num_shelves>>,
             size |-> <<(section_width * 8) \div 10, y - 2 * th>>]
    IN  [k \in {key(w) : w \in Where} |->
            region(CHOOSE w \in Where : key(w) = k)]

\* get_reset_regions: region name -> [offset, size].  offset[3] carries the
\* denominator num_shelves of shelf_z_positions; 0.8 is 8 / 10
OpenCabinet_get_reset_regions(f) ==
    LET x == f.size[1]
        y == f.size[2]
        th == f.thickness
        section_width == (x - 2 * th) \div Len(SHELF_SECTIONS)
        \* (i + 1, j + 1) of the two enumerate loops
        Where == (1..Len(f.shelf_z_positions)) \X (1..Len(SHELF_SECTIONS))
        key(w) == OpenCabinet_region_key(Some(w[1] - 1), SHELF_SECTIONS[w[2]])
        region(w) ==
            [offset |-> <<-x \div 2 + th + (w[2] - 1) * section_width
                              + section_width \div 2,
                          0,
                          f.shelf_z_positions[w[1]] + th * f.num_shelves>>,
             size |-> <<(section_width * 8) \div 10, y - 2 * th>>]
    IN  [k \in {key(w) : w \in Where} |->
            region(CHOOSE w \in Where : key(w) = k)]

\* sample_reset_region(env, shelf_index=None, **kwargs) for the call r:
\*   form "sample_region_kwargs": kwargs holds the dict sample_region_kwargs,
\*       whose keys shelf_index and section are r.shelf_index and r.section
\*       (None when the dict lacks the key);
\*   form "section": the call passes section=r.section and, unless None,
\*       shelf_index=r.shelf_index by keyword; Python binds shelf_index to
\*       the parameter of that name, so kwargs holds the key section alone;
\*   form "plain": the call passes at most shelf_index=r.shelf_index.
\* The result is <<the region returned>>, or the KeyError of the last line.
OpenCabinet_sample_reset_region(f, r) ==
    LET regions_ == OpenCabinet_get_reset_regions(f)
        shelf_index ==
            CASE r.form = "sample_region_kwargs" ->
                    IF r.shelf_index = None THEN Some(0) ELSE r.shelf_index
              [] r.form = "section" -> Some(0)
              [] OTHER -> IF r.shelf_index # None THEN r.shelf_index ELSE Some(0)
        section ==
            CASE r.form = "sample_region_kwargs" ->
                    IF r.section = None THEN "section_1" ELSE r.section[1]
              [] r.form = "section" -> r.section[1]
              [] OTHER -> "section_1"
        region_key == OpenCabinet_region_key(shelf_index, section)
    IN  IF region_key \in DOMAIN regions_
        THEN [err |-> "none", region |-> <<regions_[region_key]>>]
        ELSE IF "shelf_0_section_1" \in DOMAIN regions_
        THEN [err |-> "none", region |-> <<regions_["shelf_0_section_1"]>>]
        ELSE [err |-> "KeyError", region |-> <<>>]

----------------------------------------------------------------------------
(* Drawer *)

\* _create_cab: the bounding sites; 0.001 m is mm(1)
Drawer_sites(size, thickness) ==
    LET x == size[1] \div 2
        y == size[2] \div 2
        z == size[3] \div 2
        th == thickness \div 2
        ix == x - 2 * th - mm(1)
        iy == y - 2 * th
        iz == z - 2 * th - mm(1)
    IN  [ext_p0 |-> <<-x, -y, -z>>,
         ext_px |-> <<x, -y, -z>>,
         ext_py |-> <<-x, y, -z>>,
         ext_pz |-> <<-x, -y, z>>,
         int_p0 |-> <<-ix + 2 * th, -iy, -iz + 2 * th>>,
         int_px |-> <<ix - 2 * th, -iy, -iz + 2 * th>>,
         int_py |-> <<-ix + 2 * th, iy - 2 * th, -iz + 2 * th>>,
         int_pz |-> <<-ix + 2 * th, -iy, iz>>]

\* _create_cab: half-extents and centres of the walls of the outer housing
\* and of the inner box
Drawer_walls(size, thickness) ==
    LET x == size[1] \div 2
        y == size[2] \div 2
        z == size[3] \div 2
        th == thickness \div 2
        ix == x - 2 * th - mm(1)
        iy == y - 2 * th
        iz == z - 2 * th - mm(1)
    IN  [sizes |->
            [top |-> <<x, y - th, th>>,
             bottom |-> <<x, y - th, th>>,
             back |-> <<x - 2 * th, th, z - 2 * th>>,
             left |-> <<th, y - th, z - 2 * th>>,
             right |-> <<th, y - th, z - 2 * th>>,
             inner_bottom |-> <<ix, iy, th>>,
             inner_back |-> <<ix - 2 * th, th, iz - 2 * th>>,
             inner_left |-> <<th, iy, iz - 2 * th>>,
             inner_right |-> <<th, iy, iz - 2 * th>>],
         positions |->
            [top |-> <<0, th, z - th>>,
             bottom |-> <<0, th, -z + th>>,
             back |-> <<0, y - th, 0>>,
             left |-> <<-x + th, th, 0>>,
             right |-> <<x - th, th, 0>>,
             inner_bottom |-> <<0, 0, -iz + th>>,
             inner_back |-> <<0, iy - th, 0>>,
             inner_left |-> <<-ix + th, 0, 0>>,
             inner_right |-> <<ix - th, 0, 0>>]]

\* _create_cab: position and range of the slide joint
Drawer_joints(size, thickness) ==
    LET y == size[2] \div 2
    IN  [NoJoints EXCEPT
            !["slidejoint"] = [pos |-> <<0, -y, 0>>, range |-> <<-y * 2, 0>>]]

\* _create_cab: the arguments of its _add_door call
Drawer_door(c) ==
    LET x == c.size[1] \div 2
        y == c.size[2] \div 2
        z == c.size[3] \div 2
        th == c.thickness \div 2
    IN  [w |-> x * 2, h |-> z * 2, th |-> th * 2,
         pos |-> <<0, -y + th, 0>>,
         parent_body |-> "inner_box",
         handle_hpos |-> "center",
         handle_vpos |-> "center",
         door_name |-> "door"]

IntSiteNames == {"int_p0", "int_px", "int_py", "int_pz"}

\* sim.forward(): the positions of the sites are recomputed from qpos.  The
\* interior sites of the drawer ride on the inner box, which the slide joint
\* displaces along y; the result is that displacement (denominator QDen)
forward(q) == q["slidejoint"]

\* update_state: the four interior sites are read from sim.data.site_xpos,
\* taken relative to the fixture and stored with set_bounds_sites.  xpos is
\* the displacement as of the last forward pass, brought to the length unit
Drawer_update_state(size, thickness, old, xpos) ==
    LET static == Drawer_sites(size, thickness)
        dy == -((-xpos) \div QDen)
        int_sites == [site \in IntSiteNames |->
                        <<static[site][1], static[site][2] + dy, static[site][3]>>]
    IN  set_bounds_sites(old, int_sites)

\* mutant: the slide may travel the full depth
Drawer_joint_max_full(size) == size[2]

\* self.size[1] * 0.55
Drawer_joint_max(size) == (size[2] * 55) \div 100

\* mutant: the sample is drawn from [0, desired_max]
Drawer_set_door_state_from_zero(size, q, min, max, j) ==
    [q EXCEPT !["slidejoint"] = -uniform(0, Drawer_joint_max(size) * max, j)]

\* set_door_state past its assert: qpos after the write to {name}_slidejoint
Drawer_set_door_state(size, q, min, max, j) ==
    LET joint_min == 0
        joint_max == Drawer_joint_max(size)
        desired_min == joint_min * 100 + (joint_max - joint_min) * min
        desired_max == joint_min * 100 + (joint_max - joint_min) * max
        sign == -1
    IN  [q EXCEPT !["slidejoint"] = sign * uniform(desired_min, desired_max, j)]

Drawer_get_door_state(size, q) ==
    LET sign == -1
        hinge_qpos == q["slidejoint"] * sign
        door == normalize_joint_value(hinge_qpos, 0, (size[2] * 55) \div 100)
    IN  {[part |-> "door", f |-> door]}

----------------------------------------------------------------------------
(* PanelCabinet *)

\* _create_cab: the two geoms of the solid body, appended to the cabinet's
\* own object when solid_body is set
PanelCabinet_body(b, solid_body) ==
    IF solid_body
    THEN [b EXCEPT !.appended = @ \o <<[parent |-> "root", child |-> "_body"],
                                       [parent |-> "root",
                                        child |-> "_body_visual"]>>]
    ELSE b

\* _create_cab: the arguments of its _add_door call
PanelCabinet_door(c) ==
    LET x == c.size[1] \div 2
        y == c.size[2] \div 2
        z == c.size[3] \div 2
        th == c.thickness \div 2
    IN  [w |-> x * 2, h |-> z * 2, th |-> th * 2,
         pos |-> <<0, -y + th, 0>>,
         parent_body |-> "root",
         handle_hpos |-> "center",
         handle_vpos |-> "center",
         door_name |-> "door"]

----------------------------------------------------------------------------
(* HousingCabinet *)


\* the three axes in the order of "for d in range(3)"
Axes == 1..3

\* __init__, "Parse size and padding input": the defaults for a missing size
\* or padding list and for a missing padding entry
HousingCabinet_parse(size, padding) ==
    IF size = None /\ padding = None
    THEN [err |-> "ValueError", size |-> <<>>, padding |-> <<>>]
    ELSE LET size1 == IF size = None THEN [d \in Axes |-> None] ELSE size
             padding1 == IF size # None /\ padding = None
                         THEN [d \in Axes |-> <<None, None>>]
                         ELSE padding
             padding2 == [d \in Axes |->
                            IF padding1[d] = None THEN <<None, None>>
                            ELSE padding1[d]]
         IN  [err |-> "none", size |-> size1, padding |-> padding2]

\* __init__, "Round small fp errors to 0": 0.000001 m is um(1)
HousingCabinet_round(i) == IF Abs(i) > um(1) THEN i ELSE 0

\* mutant: the exemption is given to the back face instead of the front face
HousingCabinet_negative_back_exempt(d, size_d, padding_d) ==
    size_d < 0 \/ padding_d[1] < 0 \/ (d # 2 /\ padding_d[2] < 0)

\* __init__, "Allow negative front padding for object to stick out further";
\* d is the 1-based axis, so that Python's d != 1 is d # 2 here
HousingCabinet_negative(d, size_d, padding_d) ==
    size_d < 0 \/ padding_d[2] < 0 \/ (d # 2 /\ padding_d[1] < 0)

\* mutant: the interior object's extent is left out of the derived size
HousingCabinet_derive_size_pads_only(padding_d, obj_d) ==
    padding_d[1][1] + padding_d[2][1]

\* __init__: size[d] = sum(padding[d]) + interior_obj.size[d]
HousingCabinet_derive_size(padding_d, obj_d) ==
    padding_d[1][1] + padding_d[2][1] + obj_d

\* mutant: the interior object's extent is not subtracted before the split
HousingCabinet_split_whole(size_d, obj_d) == size_d[1] \div 2

\* __init__: padding[d][0] = padding[d][1] = (size[d] - interior_obj.size[d]) / 2
HousingCabinet_split(size_d, obj_d) == (size_d[1] - obj_d) \div 2

\* __init__: the missing side, size[d] - interior_obj.size[d] - padding[d][other]
HousingCabinet_remainder(size_d, obj_d, other) == size_d[1] - obj_d - other[1]

\* __init__, the body of "for d in range(3)" for one axis: the resolved size
\* and padding of the axis, or the exception the body raises
HousingCabinet_resolve_axis(d, size_d, padding_d, obj_d) ==
    LET raise(e) == [err |-> e, size |-> 0, padding |-> <<0, 0>>]
        check(sz, pd) ==
            LET rounded == <<HousingCabinet_round(pd[1]), HousingCabinet_round(pd[2])>>
            IN  IF HousingCabinet_negative(d, sz, rounded)
                THEN raise("ValueError")
                ELSE [err |-> "none", size |-> sz, padding |-> rounded]
    IN  IF size_d = None
        THEN IF padding_d[1] = None \/ padding_d[2] = None
             THEN raise("ValueError")
             ELSE check(HousingCabinet_derive_size(padding_d, obj_d),
                        <<padding_d[1][1], padding_d[2][1]>>)
        ELSE IF padding_d[1] = None /\ padding_d[2] = None
             THEN check(size_d[1], <<HousingCabinet_split(size_d, obj_d),
                                     HousingCabinet_split(size_d, obj_d)>>)
        ELSE IF padding_d[1] = None
             THEN check(size_d[1],
                        <<HousingCabinet_remainder(size_d, obj_d, padding_d[2]),
                          padding_d[2][1]>>)
        ELSE IF padding_d[2] = None
             THEN check(size_d[1],
                        <<padding_d[1][1],
                          HousingCabinet_remainder(size_d, obj_d, padding_d[1])>>)
        ELSE IF size_d[1] = padding_d[1][1] + padding_d[2][1] + obj_d
             THEN check(size_d[1], <<padding_d[1][1], padding_d[2][1]>>)
             ELSE raise("AssertionError")

\* __init__ up to "self.padding = padding": the resolved size and padding, or
\* the first exception raised
HousingCabinet_resolve(size, padding, obj_size) ==
    LET parsed == HousingCabinet_parse(size, padding)
        r == [d \in Axes |-> HousingCabinet_resolve_axis(
                                d, parsed.size[d], parsed.padding[d], obj_size[d])]
        failed == {d \in Axes : r[d].err # "none"}
        first == CHOOSE d \in failed : \A e \in failed : d <= e
    IN  IF parsed.err # "none" THEN parsed
        ELSE IF failed # {}
        THEN [err |-> r[first].err, size |-> <<>>, padding |-> <<>>]
        ELSE [err |-> "none",
              size |-> [d \in Axes |-> r[d].size],
              padding |-> [d \in Axes |-> r[d].padding]]

\* the five walls, in the order of the dictionaries of _create_cab
WallNames == <<"top", "bottom", "back", "left", "right">>

\* _create_cab: centres and half-extents of the five walls, from the padding
HousingCabinet_walls(size, padding) ==
    LET x == size[1] \div 2
        y == size[2] \div 2
        z == size[3] \div 2
    IN  [positions |->
            [top |-> <<0, -(padding[2][2] \div 2), z - padding[3][2] \div 2>>,
             bottom |-> <<0, -(padding[2][2] \div 2), -z + padding[3][1] \div 2>>,
             back |-> <<0, y - padding[2][2] \div 2, 0>>,
             left |-> <<-x + padding[1][1] \div 2, -(padding[2][2] \div 2), 0>>,
             right |-> <<x - padding[1][2] \div 2, -(padding[2][2] \div 2), 0>>],
         sizes |->
            [top |-> <<x, y - padding[2][2] \div 2, padding[3][2] \div 2>>,
             bottom |-> <<x, y - padding[2][2] \div 2, padding[3][1] \div 2>>,
             back |-> <<x, padding[2][2] \div 2, z>>,
             left |-> <<padding[1][1] \div 2, y - padding[2][2] \div 2,
                        z - (padding[3][1] + padding[3][2]) \div 2>>,
             right |-> <<padding[1][2] \div 2, y - padding[2][2] \div 2,
                         z - (padding[3][1] + padding[3][2]) \div 2>>]]

\* mutant: only the walls with a negative extent are removed
HousingCabinet_remove_walls_keeps_flat(w) ==
    LET kept == {g \in DOMAIN w.sizes : \A d \in Axes : w.sizes[g][d] >= 0}
    IN  [sizes |-> [g \in kept |-> w.sizes[g]],
         positions |-> [g \in kept |-> w.positions[g]]]

\* _create_cab, "remove walls with size <= 0"
HousingCabinet_remove_walls(w) ==
    LET kept == {g \in DOMAIN w.sizes : \A d \in Axes : w.sizes[g][d] > 0}
    IN  [sizes |-> [g \in kept |-> w.sizes[g]],
         positions |-> [g \in kept |-> w.positions[g]]]

\* the walls of w in dictionary order, from the i-th name on
RECURSIVE HousingCabinet_keys(_, _)
HousingCabinet_keys(w, i) ==
    IF i > Len(WallNames) THEN <<>>
    ELSE (IF WallNames[i] \in DOMAIN w.sizes THEN <<WallNames[i]>> ELSE <<>>)
         \o HousingCabinet_keys(w, i + 1)

\* the geom new_geom creates for a wall: the collision geom (group 0) or the
\* visual geom (group 1)
HousingCabinet_new_geom(w, g, group) ==
    [name |-> IF group = 1 THEN g \o "_visual" ELSE g, wall |-> g,
     group |-> group, size |-> w.sizes[g], pos |-> w.positions[g]]

\* _create_cab, "Add geoms to xml": the geoms appended to the object
RECURSIVE HousingCabinet_append_geoms(_, _)
HousingCabinet_append_geoms(w, keys) ==
    IF keys = <<>> THEN <<>>
    ELSE <<HousingCabinet_new_geom(w, Head(keys), 0),
           HousingCabinet_new_geom(w, Head(keys), 1)>>
         \o HousingCabinet_append_geoms(w, Tail(keys))

HousingCabinet_add_geoms(w) ==
    HousingCabinet_append_geoms(w, HousingCabinet_keys(w, 1))

\* mutant: the interior box is inset by the near-side padding on both sides
HousingCabinet_sites_near_side(size, padding) ==
    LET x == size[1] \div 2
        y == size[2] \div 2
        z == size[3] \div 2
    IN  [ext_p0 |-> <<-x, -y, -z>>,
         ext_px |-> <<x, -y, -z>>,
         ext_py |-> <<-x, y, -z>>,
         ext_pz |-> <<-x, -y, z>>,
         int_p0 |-> <<-x + padding[1][1], -y + padding[2][1], -z + padding[3][1]>>,
         int_px |-> <<x - padding[1][1], -y + padding[2][1], -z + padding[3][1]>>,
         int_py |-> <<-x + padding[1][1], y - padding[2][1], -z + padding[3][1]>>,
         int_pz |-> <<-x + padding[1][1], -y + padding[2][1], z - padding[3][1]>>]

\* _create_cab: the bounding sites
HousingCabinet_sites(size, padding) ==
    LET x == size[1] \div 2
        y == size[2] \div 2
        z == size[3] \div 2
    IN  [ext_p0 |-> <<-x, -y, -z>>,
         ext_px |-> <<x, -y, -z>>,
         ext_py |-> <<-x, y, -z>>,
         ext_pz |-> <<-x, -y, z>>,
         int_p0 |-> <<-x + padding[1][1], -y + padding[2][1], -z + padding[3][1]>>,
         int_px |-> <<x - padding[1][2], -y + padding[2][1], -z + padding[3][1]>>,
         int_py |-> <<-x + padding[1][1], y - padding[2][2], -z + padding[3][1]>>,
         int_pz |-> <<-x + padding[1][1], -y + padding[2][1], z - padding[3][2]>>]

\* the part of the object set_pos and _place_interior_obj work on:
\* [pos, padding, interior_obj (TRUE once assigned), interior_origin, err]

\* _place_interior_obj: the origin handed to interior_obj.set_origin; with
\* interior_obj still None the attribute access raises
HousingCabinet_place_interior_obj(h) ==
    IF ~h.interior_obj
    THEN [h EXCEPT !.err = "AttributeError"]
    ELSE [h EXCEPT !.interior_origin =
            <<h.pos[1] + (h.padding[1][1] - h.padding[1][2]) \div 2,
              h.pos[2] + (h.padding[2][1] - h.padding[2][2]) \div 2,
              h.pos[3] + (h.padding[3][1] - h.padding[3][2]) \div 2>>]

\* mutant: the interior object is not moved along
HousingCabinet_set_pos_alone(h, p) == [h EXCEPT !.pos = p]

\* set_pos: the position is stored, the interior object follows if assigned
HousingCabinet_set_pos(h, p) ==
    LET h1 == [h EXCEPT !.pos = p]
    IN  IF h1.interior_obj THEN HousingCabinet_place_interior_obj(h1) ELSE h1

\* __init__ from "self.padding = padding" on: the superclass constructor
\* (which calls set_pos when a position is passed), then the interior object
\* is assigned and placed
HousingCabinet_init(padding, pos_arg) ==
    LET h0 == [pos |-> <<0, 0, 0>>, padding |-> padding, interior_obj |-> FALSE,
               interior_origin |-> <<>>, err |-> "none"]
        h1 == IF pos_arg = None THEN h0 ELSE HousingCabinet_set_pos(h0, pos_arg)
        h2 == [h1 EXCEPT !.interior_obj = TRUE]
    IN  IF h1.err # "none" THEN h1 ELSE HousingCabinet_place_interior_obj(h2)

----------------------------------------------------------------------------
(* Construction of the door and shelf variants *)

\* nothing has been constructed or attempted yet
Fresh == fx.kind = "none" /\ err = "none" /\ ~ctor.made /\ ~cab_ctor.made

\* the record of a constructor call of the given variant
CabCtor(variant, pa) ==
    [made |-> TRUE, variant |-> variant, panel_type |-> pa.panel_type,
     panel_config |-> pa.panel_config]

\* what a constructor leaves alone
NotConstructed == <<qpos, pos, interior_origin, ctor, call, ret, site_xpos,
                    derived, regions, sample, env>>

\* SingleCabinet(size, thickness, orientation, panel_type, panel_config)
SingleCabinet_new(pargs) ==
    /\ Fresh
    /\ \E orientation \in Orientations, size \in Sizes,
          thickness \in Thicknesses, pa \in pargs :
          LET c == Cabinet_init(size, thickness, pa, "bar")
              b == Cabinet_add_door(c, NoBuilt, SingleCabinet_door(c, orientation))
          IN  /\ cab_ctor' = CabCtor("single", pa)
              /\ built' = b
              /\ err' = b.err
              /\ IF b.err # "none"
                 THEN UNCHANGED <<fx, joints, sites>>
                 ELSE /\ fx' = [NoFixture EXCEPT !.kind = "single",
                                                 !.orientation = orientation,
                                                 !.size = size,
                                                 !.thickness = thickness,
                                                 !.panel_type = pa.panel_type,
                                                 !.walls = SingleCabinet_walls(size, thickness)]
                      /\ joints' = SingleCabinet_joints(orientation, size, thickness)
                      /\ sites' = set_bounds_sites(
                                      sites, SingleCabinet_sites(size, thickness))
    /\ UNCHANGED NotConstructed

CreateSingleCabinet == SingleCabinet_new({DefaultPanelArgs})

CreateSingleCabinetAny == SingleCabinet_new(PanelArgs)

\* HingeCabinet(size, thickness, panel_type, panel_config)
HingeCabinet_new(pargs) ==
    /\ Fresh
    /\ \E size \in Sizes, thickness \in Thicknesses, pa \in pargs :
          LET c == Cabinet_init(size, thickness, pa, "bar")
              b == HingeCabinet_add_doors(c, NoBuilt)
          IN  /\ cab_ctor' = CabCtor("hinge", pa)
              /\ built' = b
              /\ err' = b.err
              /\ IF b.err # "none"
                 THEN UNCHANGED <<fx, joints, sites>>
                 ELSE /\ fx' = [NoFixture EXCEPT !.kind = "hinge",
                                                 !.size = size,
                                                 !.thickness = thickness,
                                                 !.panel_type = pa.panel_type,
                                                 !.walls = HingeCabinet_walls(size, thickness)]
                      /\ joints' = HingeCabinet_joints(size, thickness)
                      /\ sites' = set_bounds_sites(
                                      sites, HingeCabinet_sites(size, thickness))
    /\ UNCHANGED NotConstructed

CreateHingeCabinet == HingeCabinet_new({DefaultPanelArgs})

CreateHingeCabinetAny == HingeCabinet_new(PanelArgs)

\* OpenCabinet(size, thickness, num_shelves, panel_type, panel_config)
OpenCabinet_new(pargs) ==
    /\ Fresh
    /\ \E size \in Sizes, thickness \in Thicknesses, pa \in pargs,
          num_shelves \in 0..MaxShelves :
          LET c == Cabinet_init(size, thickness, pa, "bar")
              shelf_z_positions ==
                  OpenCabinet_shelf_z_positions(size, thickness, num_shelves)
              b == OpenCabinet_add_shelves(c, NoBuilt, shelf_z_positions)
          IN  /\ cab_ctor' = CabCtor("open", pa)
              /\ built' = b
              /\ fx' = [NoFixture EXCEPT !.kind = "open",
                                         !.size = size,
                                         !.thickness = thickness,
                                         !.panel_type = pa.panel_type,
                                         !.num_shelves = num_shelves,
                                         !.shelf_z_positions = shelf_z_positions]
              /\ sites' = set_bounds_sites(sites, OpenCabinet_sites(size, thickness))
    /\ err' = "none"
    /\ UNCHANGED joints
    /\ UNCHANGED NotConstructed

CreateOpenCabinet == OpenCabinet_new({DefaultPanelArgs})

CreateOpenCabinetAny == OpenCabinet_new(PanelArgs)

\* Drawer(size, thickness, panel_type, panel_config)
Drawer_new(pargs, sizes, thicknesses) ==
    /\ Fresh
    /\ \E size \in sizes, thickness \in thicknesses, pa \in pargs :
          LET c == Cabinet_init(size, thickness, pa, "bar")
              b == Cabinet_add_door(c, NoBuilt, Drawer_door(c))
          IN  /\ cab_ctor' = CabCtor("drawer", pa)
              /\ built' = b
              /\ err' = b.err
              /\ IF b.err # "none"
                 THEN UNCHANGED <<fx, joints, sites>>
                 ELSE /\ fx' = [NoFixture EXCEPT !.kind = "drawer",
                                                 !.size = size,
                                                 !.thickness = thickness,
                                                 !.panel_type = pa.panel_type,
                                                 !.walls = Drawer_walls(size, thickness)]
                      /\ joints' = Drawer_joints(size, thickness)
                      /\ sites' = set_bounds_sites(
                                      sites, Drawer_sites(size, thickness))
    /\ UNCHANGED NotConstructed

CreateDrawer == Drawer_new({DefaultPanelArgs}, Sizes, Thicknesses)

CreateDrawerAny == Drawer_new(PanelArgs, Sizes, Thicknesses)

\* the drawer of the documentation's end-to-end example, size [0.5, 0.5, 0.3]
\* with the default thickness 0.03
CreateDrawerExample ==
    Drawer_new({DefaultPanelArgs}, {<<mm(500), mm(500), mm(300)>>}, {mm(30)})

\* PanelCabinet(size, thickness, solid_body, panel_type, panel_config):
\* handle_type is forced to None, the solid body and the door are built, and
\* set_bounds_sites is not called
PanelCabinet_new(pargs) ==
    /\ Fresh
    /\ \E size \in Sizes, thickness \in Thicknesses, pa \in pargs,
          solid_body \in BOOLEAN :
          LET c == Cabinet_init(size, thickness, pa, "None")
              b == Cabinet_add_door(c, PanelCabinet_body(NoBuilt, solid_body),
                                    PanelCabinet_door(c))
          IN  /\ cab_ctor' = CabCtor("panel", pa)
              /\ built' = b
              /\ err' = b.err
              /\ IF b.err # "none"
                 THEN UNCHANGED fx
                 ELSE fx' = [NoFixture EXCEPT !.kind = "panel",
                                              !.size = size,
                                              !.thickness = thickness,
                                              !.panel_type = pa.panel_type,
                                              !.solid_body = solid_body]
    /\ UNCHANGED <<joints, sites>>
    /\ UNCHANGED NotConstructed

CreatePanelCabinet == PanelCabinet_new({DefaultPanelArgs})

CreatePanelCabinetAny == PanelCabinet_new(PanelArgs)

----------------------------------------------------------------------------
(* Construction and re-positioning of the housing cabinet *)

\* interior_obj.size of the wrapped object
ObjSize == <<mm(300), mm(200), mm(100)>>

\* the full size that leaves mm(20) of padding on both sides of an axis
FullSize(d) == ObjSize[d] + 2 * mm(20)

\* size and padding arguments tried for one axis
AxisArgs(d) ==
    {[size |-> None, padding |-> pd] :
        pd \in {None, <<None, None>>, <<Some(mm(20)), None>>,
                <<Some(mm(20)), Some(mm(20))>>, <<Some(-mm(10)), Some(mm(20))>>,
                <<Some(mm(20)), Some(-mm(10))>>, <<Some(um(1)), Some(um(1))>>,
                <<Some(-um(1)), Some(mm(20))>>, <<Some(mm(20)), Some(mm(40))>>}}
    \cup
    {[size |-> Some(FullSize(d)), padding |-> pd] :
        pd \in {None, <<Some(mm(20)), None>>, <<None, Some(mm(20))>>,
                <<Some(-mm(10)), None>>, <<None, Some(-mm(10))>>,
                <<Some(um(1)), None>>, <<Some(mm(20)), Some(mm(20))>>,
                <<Some(mm(20)), Some(um(1))>>}}
    \cup
    {[size |-> Some(-mm(100)), padding |-> None],
     [size |-> Some(ObjSize[d]), padding |-> None]}

\* size and padding argument lists tried: every combination of the per-axis
\* arguments, and the lists that are None as a whole
CtorArgs ==
    {[size |-> None, padding |-> None],
     [size |-> None, padding |-> [d \in Axes |-> <<Some(mm(20)), Some(mm(20))>>]],
     [size |-> [d \in Axes |-> Some(FullSize(d))], padding |-> None],
     [size |-> [d \in Axes |-> None], padding |-> None]}
    \cup
    {[size |-> <<a1.size, a2.size, a3.size>>,
      padding |-> <<a1.padding, a2.padding, a3.padding>>] :
        a1 \in AxisArgs(1), a2 \in AxisArgs(2), a3 \in AxisArgs(3)}

\* the argument lists that treat the three axes alike
CtorArgsAlike ==
    {a \in CtorArgs :
        \/ a.size = None
        \/ a.padding = None
        \/ /\ a.padding[1] = a.padding[2] /\ a.padding[2] = a.padding[3]
           /\ \/ \A d \in Axes : a.size[d] = None
              \/ \A d \in Axes : a.size[d] = Some(FullSize(d))
              \/ \A d \in Axes : a.size[d] = Some(ObjSize[d])
              \/ \A d \in Axes : a.size[d] = Some(-mm(100))}

\* range of the positions tried
MaxPos == 1

PosVals == {<<mm(100) * i, -mm(50) * i, mm(10) * i * i>> : i \in -MaxPos..MaxPos}

\* HousingCabinet(interior_obj, size, padding, pos) for the arguments in args
HousingCabinet_new(args) ==
    /\ Fresh
    /\ \E a \in args, pos_arg \in {None, <<mm(1000), mm(2000), mm(500)>>} :
          LET r == HousingCabinet_resolve(a.size, a.padding, ObjSize)
              h == HousingCabinet_init(r.padding, pos_arg)
              w == HousingCabinet_remove_walls(
                       HousingCabinet_walls(r.size, r.padding))
          IN  /\ ctor' = [made |-> TRUE, size |-> a.size, padding |-> a.padding,
                          pos |-> pos_arg]
              /\ cab_ctor' = CabCtor("housing", DefaultPanelArgs)
              /\ IF r.err # "none"
                 THEN /\ err' = r.err
                      /\ UNCHANGED <<fx, sites, pos, interior_origin>>
                 ELSE IF h.err # "none"
                 THEN /\ err' = h.err
                      /\ UNCHANGED <<fx, sites, pos, interior_origin>>
                 ELSE /\ err' = "none"
                      /\ fx' = [NoFixture EXCEPT !.kind = "housing",
                                                 !.size = r.size,
                                                 !.padding = r.padding,
                                                 !.interior_size = ObjSize,
                                                 !.walls = w,
                                                 !.geoms = HousingCabinet_add_geoms(w)]
                      /\ sites' = set_bounds_sites(
                                      sites, HousingCabinet_sites(r.size, r.padding))
                      /\ pos' = h.pos
                      /\ interior_origin' = h.interior_origin
    /\ UNCHANGED <<joints, qpos, call, ret, built, site_xpos, derived, regions,
                    sample, env>>

CreateHousingCabinet == HousingCabinet_new(CtorArgsAlike)

CreateHousingCabinetAny == HousingCabinet_new(CtorArgs)

\* set_pos on the constructed housing cabinet
SetPos ==
    /\ fx.kind = "housing"
    /\ \E p \in PosVals :
          LET h == HousingCabinet_set_pos(
                       [pos |-> pos, padding |-> fx.padding, interior_obj |-> TRUE,
                        interior_origin |-> interior_origin, err |-> "none"], p)
          IN  /\ pos' = h.pos
              /\ interior_origin' = h.interior_origin
              /\ err' = h.err
    /\ UNCHANGED <<fx, joints, sites, qpos, ctor, call, ret, cab_ctor, built,
                    site_xpos, derived, regions, sample, env>>

----------------------------------------------------------------------------
(* set_door_state / get_door_state on the constructed fixture *)

Movable == {"single", "hinge", "drawer"}

\* values tried as min and max: the fractions and two values outside [0, 1]
ArgVals == Fracs \cup {-10, 150}

\* mutant: the base class writes a door hinge instead of doing nothing
set_door_state_any_kind(f, q, min, max, j1, j2) ==
    CASE f.kind = "hinge" -> HingeCabinet_set_door_state(q, min, max, j1, j2)
      [] f.kind = "drawer" -> Drawer_set_door_state(f.size, q, min, max, j1)
      [] OTHER -> SingleCabinet_set_door_state("right", q, 50, 100, j1)

\* dispatch on the class of the fixture; Cabinet.set_door_state is "pass"
set_door_state(f, q, min, max, j1, j2) ==
    CASE f.kind = "single" ->
            SingleCabinet_set_door_state(f.orientation, q, min, max, j1)
      [] f.kind = "hinge" -> HingeCabinet_set_door_state(q, min, max, j1, j2)
      [] f.kind = "drawer" -> Drawer_set_door_state(f.size, q, min, max, j1)
      [] OTHER -> q

\* dispatch on the class of the fixture; Cabinet.get_door_state returns {}
get_door_state(f, q) ==
    CASE f.kind = "single" -> SingleCabinet_get_door_state(f.orientation, q)
      [] f.kind = "hinge" -> HingeCabinet_get_door_state(q)
      [] f.kind = "drawer" -> Drawer_get_door_state(f.size, q)
      [] OTHER -> {}

\* set_door_state, the call is accepted (or the variant has no assert)
SetDoorState ==
    /\ fx.kind # "none"
    /\ \E min \in ArgVals, max \in ArgVals, j1 \in Draws :
       \E j2 \in (IF fx.kind = "hinge" THEN Draws ELSE {0}) :
          /\ fx.kind \in Movable => ValidArgs(min, max)
          /\ qpos' = set_door_state(fx, qpos, min, max, j1, j2)
          /\ call' = [made |-> TRUE, min |-> min, max |-> max]
    /\ ret' = NoRet
    /\ derived' = NoDerived
    /\ err' = "none"
    /\ UNCHANGED <<fx, joints, sites, pos, interior_origin, ctor, cab_ctor, built,
                    site_xpos, regions, sample, env>>

\* mutant: the arguments are checked after the joints have been written
SetDoorStateRejected_after_write ==
    /\ fx.kind \in Movable
    /\ \E min \in ArgVals, max \in ArgVals, j \in Draws :
          /\ ~ValidArgs(min, max)
          /\ qpos' = set_door_state(fx, qpos, min, max, j, j)
    /\ err' = "AssertionError"
    /\ UNCHANGED <<fx, joints, sites, pos, interior_origin, ctor, call, ret,
                    cab_ctor, built, site_xpos, derived, regions, sample, env>>

\* set_door_state, the assert fails: nothing is written
SetDoorStateRejected ==
    /\ fx.kind \in Movable
    /\ \E min \in ArgVals, max \in ArgVals : ~ValidArgs(min, max)
    /\ err' = "AssertionError"
    /\ UNCHANGED <<fx, joints, sites, qpos, pos, interior_origin, ctor, call, ret,
                    cab_ctor, built, site_xpos, derived, regions, sample, env>>

GetDoorState ==
    /\ fx.kind # "none"
    /\ ret' = [made |-> TRUE, parts |-> get_door_state(fx, qpos)]
    /\ err' = "none"
    /\ UNCHANGED <<fx, joints, sites, qpos, pos, interior_origin, ctor, call,
                    cab_ctor, built, site_xpos, derived, regions, sample, env>>

\* sim.forward(), called by the environment
Forward ==
    /\ fx.kind # "none"
    /\ site_xpos' = forward(qpos)
    /\ UNCHANGED <<fx, joints, sites, qpos, pos, interior_origin, ctor, call, ret,
                    err, cab_ctor, built, derived, regions, sample, env>>

\* Drawer.update_state(env)
UpdateState ==
    /\ fx.kind = "drawer"
    /\ sites' = Drawer_update_state(fx.size, fx.thickness, sites, site_xpos)
    /\ derived' = [made |-> TRUE]
    /\ err' = "none"
    /\ UNCHANGED <<fx, joints, qpos, pos, interior_origin, ctor, call, ret,
                    cab_ctor, built, site_xpos, regions, sample, env>>

\* OpenCabinet.get_reset_regions(env)
GetResetRegions ==
    /\ fx.kind = "open"
    /\ regions' = [made |-> TRUE, map |-> OpenCabinet_get_reset_regions(fx)]
    /\ err' = "none"
    /\ UNCHANGED <<fx, joints, sites, qpos, pos, interior_origin, ctor, call, ret,
                    cab_ctor, built, site_xpos, derived, sample, env>>

\* OpenCabinet.sample_reset_region(env, ...) for each form of call
SampleResetRegion ==
    /\ fx.kind = "open"
    /\ \E r \in SampleCalls :
          LET res == OpenCabinet_sample_reset_region(fx, r)
          IN  /\ sample' = [made |-> TRUE, form |-> r.form,
                            shelf_index |-> r.shelf_index, section |-> r.section,
                            region |-> res.region]
              /\ err' = res.err
    /\ UNCHANGED <<fx, joints, sites, qpos, pos, interior_origin, ctor, call, ret,
                    cab_ctor, built, site_xpos, derived, regions, env>>

----------------------------------------------------------------------------

----------------------------------------------------------------------------
(* The kitchen environment (BasicEnvChef) *)

\* self.fixtures: name and class of the fixtures of the kitchen
KitchenFixtures ==
    <<[name |-> "cab_main_main_group", kind |-> "single", orientation |-> "left",
       size |-> <<mm(600), mm(400), mm(800)>>],
      [name |-> "shelves", kind |-> "open", orientation |-> "none",
       size |-> <<mm(600), mm(400), mm(800)>>],
      [name |-> "fridge_cab_1", kind |-> "hinge", orientation |-> "none",
       size |-> <<mm(600), mm(400), mm(800)>>],
      [name |-> "fridge_housing_1", kind |-> "housing", orientation |-> "none",
       size |-> <<mm(340), mm(240), mm(140)>>],
      [name |-> "cab_counter_1", kind |-> "counter", orientation |-> "none",
       size |-> <<mm(600), mm(400), mm(800)>>],
      [name |-> "Cab_Panel", kind |-> "panel", orientation |-> "none",
       size |-> <<mm(600), mm(400), mm(800)>>]>>

FixtureNames == {KitchenFixtures[i].name : i \in 1..Len(KitchenFixtures)}

\* the open_fixtures keyword argument of the environment: the lists tried
OpenLists ==
    (SUBSET {"cab_main_main_group", "fridge"})
        \cup {{"fridge_cab_1"}, {"fridge_housing_1", "Cab_Panel"}}

\* sub in s, for two strings
Contains(s, sub) ==
    \E i \in 1..(Len(s) - Len(sub) + 1) : SubSeq(s, i, i + Len(sub) - 1) = sub

\* str.lower() on the names of the kitchen
lower(s) == IF s = "Cab_Panel" THEN "cab_panel" ELSE s

\* hasattr(fixture, "set_door_state"): the classes derived from Cabinet
HasSetDoorState(f) ==
    f.kind \in {"single", "hinge", "open", "drawer", "panel", "housing"}

\* _setup_kitchen_references: the test a fixture passes to be appended to
\* all_openable_fixtures
Openable(f) ==
    /\ \/ Contains(lower(f.name), "cabinet")
       \/ Contains(lower(f.name), "cab")
       \/ Contains(lower(f.name), "microwave")
       \/ Contains(lower(f.name), "fridge")
    /\ HasSetDoorState(f)

\* _setup_kitchen_references: all_openable_fixtures
setup_openable_fixtures == SelectSeq(KitchenFixtures, Openable)

\* mutant: only the names listed in open_fixtures are opened
should_open_listed_only(fixture_name, open_fixtures) ==
    fixture_name \in open_fixtures

\* should_open of the two fixture loops
should_open(fixture_name, open_fixtures) ==
    \/ fixture_name \in open_fixtures
    \/ /\ "fridge" \in open_fixtures
       /\ \E x \in {"fridge_housing", "fridge_cab", "fridge_top"} :
             Contains(fixture_name, x)

\* mutant: without the try / except around the body of the loop the first
\* error ends the loop
RECURSIVE update_fixtures_unguarded(_, _, _, _, _)
update_fixtures_unguarded(e, fixtures, open_fixtures, raising, draw) ==
    IF fixtures = <<>> THEN e
    ELSE LET f == Head(fixtures)
             open == should_open(f.name, open_fixtures)
             min == IF open THEN 98 ELSE 0
             max == IF open THEN 100 ELSE 2
             raised == f.name \in raising
             e1 == [qpos |->
                       IF raised THEN e.qpos
                       ELSE [e.qpos EXCEPT ![f.name] =
                               set_door_state(f, @, min, max, draw[f.name][1],
                                              draw[f.name][2])],
                    calls |-> Append(e.calls, [name |-> f.name, min |-> min,
                                               max |-> max, raised |-> raised])]
         IN  IF raised THEN e1
             ELSE update_fixtures_unguarded(e1, Tail(fixtures), open_fixtures,
                                            raising, draw)

\* "for fixture in self.all_openable_fixtures" with its try / except: the
\* joint values and the set_door_state calls made, in order.  The call of a
\* fixture in raising raises before it writes; draw gives the rng draws.
RECURSIVE update_fixtures(_, _, _, _, _)
update_fixtures(e, fixtures, open_fixtures, raising, draw) ==
    IF fixtures = <<>> THEN e
    ELSE LET f == Head(fixtures)
             open == should_open(f.name, open_fixtures)
             min == IF open THEN 98 ELSE 0
             max == IF open THEN 100 ELSE 2
             raised == f.name \in raising
             e1 == [qpos |->
                       IF raised THEN e.qpos
                       ELSE [e.qpos EXCEPT ![f.name] =
                               set_door_state(f, @, min, max, draw[f.name][1],
                                              draw[f.name][2])],
                    calls |-> Append(e.calls, [name |-> f.name, min |-> min,
                                               max |-> max, raised |-> raised])]
         IN  update_fixtures(e1, Tail(fixtures), open_fixtures, raising, draw)

\* the environment before it is created
NoEnv ==
    [made |-> FALSE, open_fixtures |-> {}, all_openable_fixtures |-> <<>>,
     qpos |-> <<>>, handler |-> "none", ran |-> FALSE, calls |-> <<>>,
     propagated |-> "none"]

\* the environment after __init__ and _setup_kitchen_references
BasicEnvChef_new(open_fixtures) ==
    [made |-> TRUE, open_fixtures |-> open_fixtures,
     all_openable_fixtures |-> setup_openable_fixtures,
     qpos |-> [n \in FixtureNames |-> ZeroQpos], handler |-> "none",
     ran |-> FALSE, calls |-> <<>>, propagated |-> "none"]

\* the openable fixtures whose set_door_state reaches the simulation and the
\* rng, and can therefore raise
CanRaise ==
    {setup_openable_fixtures[i].name : i \in
        {k \in 1..Len(setup_openable_fixtures) :
            setup_openable_fixtures[k].kind \in Movable}}

\* the rng draws of one pass over the fixtures
PassDraws ==
    {[n \in FixtureNames |->
        IF n = "cab_main_main_group" THEN <<a, 0>>
        ELSE IF n = "fridge_cab_1" THEN <<b1, b2>>
        ELSE <<0, 0>>] : a \in Draws, b1 \in Draws, b2 \in Draws}

\* what the handlers of the environment leave alone
NotEnv == <<fx, joints, sites, qpos, pos, interior_origin, ctor, call, ret, err,
            cab_ctor, built, site_xpos, derived, regions, sample>>

\* _update_fixture_states: the loop; every exception is caught inside
BasicEnvChef_update_fixture_states(e, raising, draw) ==
    LET r == update_fixtures([qpos |-> e.qpos, calls |-> <<>>],
                             e.all_openable_fixtures, e.open_fixtures, raising,
                             draw)
    IN  [e EXCEPT !.qpos = r.qpos, !.calls = r.calls, !.ran = TRUE,
                  !.propagated = "none"]

\* update_environment_state(changed_configs): _update_object_placements
\* catches its own exceptions and writes no joint of a fixture; then
\* _update_fixture_states if there is an openable fixture
UpdateEnvironmentState ==
    /\ env.made
    /\ \E raising \in SUBSET CanRaise, draw \in PassDraws :
          env' = [(IF env.all_openable_fixtures # <<>>
                   THEN BasicEnvChef_update_fixture_states(env, raising, draw)
                   ELSE [env EXCEPT !.ran = FALSE, !.calls = <<>>])
                  EXCEPT !.handler = "update_environment_state"]
    /\ UNCHANGED NotEnv

\* _reset_internal up to the fixture loop: super()._reset_internal() returns
\* or raises; an exception is caught by the outer try and ends the handler
ResetInternal ==
    /\ env.made
    /\ \E super_raises \in BOOLEAN, raising \in SUBSET CanRaise,
          draw \in PassDraws :
          env' = [(IF super_raises
                   THEN [env EXCEPT !.ran = FALSE, !.calls = <<>>,
                                    !.propagated = "none"]
                   ELSE BasicEnvChef_update_fixture_states(env, raising, draw))
                  EXCEPT !.handler = "_reset_internal"]
    /\ UNCHANGED NotEnv

Init ==
    /\ fx = NoFixture
    /\ joints = NoJoints
    /\ sites = NoSites
    /\ qpos = ZeroQpos
    /\ pos = <<0, 0, 0>>
    /\ interior_origin = <<>>
    /\ ctor = NoCtor
    /\ cab_ctor = NoCabCtor
    /\ built = NoBuilt
    /\ site_xpos = 0
    /\ derived = NoDerived
    /\ regions = NoRegions
    /\ sample = NoSample
    /\ call = NoCall
    /\ ret = NoRet
    /\ err = "none"
    /\ env = NoEnv

Next ==
    \/ CreateSingleCabinet
    \/ CreateHingeCabinet
    \/ CreateOpenCabinet
    \/ CreateDrawer
    \/ CreatePanelCabinet
    \/ CreateHousingCabinet
    \/ SetPos
    \/ SetDoorState
    \/ SetDoorStateRejected
    \/ GetDoorState

Spec == Init /\ [][Next]_vars

\* construction and re-positioning alone, with every combination of the
\* housing cabinet's per-axis arguments
NextBuild ==
    \/ CreateSingleCabinetAny
    \/ CreateHingeCabinetAny
    \/ CreateOpenCabinetAny
    \/ CreateDrawerAny
    \/ CreatePanelCabinetAny
    \/ CreateHousingCabinetAny
    \/ SetPos

SpecBuild == Init /\ [][NextBuild]_vars

\* the open cabinet and the queries of its reset regions
NextShelves ==
    \/ CreateOpenCabinet
    \/ GetResetRegions
    \/ SampleResetRegion

SpecShelves == Init /\ [][NextShelves]_vars

\* the drawer: writes of the slide joint, forward-kinematics passes of the
\* simulation and update_state, in any order
NextSlide ==
    \/ CreateDrawerExample
    \/ SetDoorState
    \/ SetDoorStateRejected
    \/ Forward
    \/ UpdateState

SpecSlide == Init /\ [][NextSlide]_vars

\* the kitchen environment, created with any of the open_fixtures lists, and
\* its handlers in any order
InitEnv ==
    /\ fx = NoFixture
    /\ joints = NoJoints
    /\ sites = NoSites
    /\ qpos = ZeroQpos
    /\ pos = <<0, 0, 0>>
    /\ interior_origin = <<>>
    /\ ctor = NoCtor
    /\ cab_ctor = NoCabCtor
    /\ built = NoBuilt
    /\ site_xpos = 0
    /\ derived = NoDerived
    /\ regions = NoRegions
    /\ sample = NoSample
    /\ call = NoCall
    /\ ret = NoRet
    /\ err = "none"
    /\ env \in {BasicEnvChef_new(o) : o \in OpenLists}

NextEnv ==
    \/ UpdateEnvironmentState
    \/ ResetInternal

SpecEnv == InitEnv /\ [][NextEnv]_vars

----------------------------------------------------------------------------
(* Properties of the open-ness mapping *)

\* the parts get_door_state reports for a movable variant
PartsOf(kind) ==
    IF kind = "hinge" THEN {"left_door", "right_door"} ELSE {"door"}

\* get_door_state has been called after the last accepted set_door_state
ReadBack == fx.kind \in Movable /\ call.made /\ ret.made

\* C1: fraction round trip.  On a movable variant, get_door_state after
\* set_door_state(f, f) reports f for every part (door, or left_door and
\* right_door), whatever the joints held before the call.
C1_FractionRoundTrip ==
    (ReadBack /\ call.min = call.max) =>
        /\ {p.part : p \in ret.parts} = PartsOf(fx.kind)
        /\ \A p \in ret.parts : RatEq(p.f, Pct(call.min))

C1_Witness ==
    /\ ReadBack
    /\ fx.kind = "drawer"
    /\ call.min = 50 /\ call.max = 50
    /\ \E p \in ret.parts : p.part = "door" /\ p.f = Rat(1, 2)

\* C2: on a movable variant, every fraction get_door_state reports after
\* set_door_state(min, max) lies in [min, max], for every draw of the rng
\* and after any earlier calls.
C2_FractionInRequestedInterval ==
    ReadBack =>
        /\ {p.part : p \in ret.parts} = PartsOf(fx.kind)
        /\ \A p \in ret.parts :
              RatLE(Pct(call.min), p.f) /\ RatLE(p.f, Pct(call.max))

C2_Witness ==
    /\ ReadBack
    /\ fx.kind = "single"
    /\ call.min = 90 /\ call.max = 100
    /\ \E p \in ret.parts :
          p.part = "door" /\ ~RatLE(p.f, Pct(90)) /\ ~RatLE(Pct(100), p.f)

\* C3: orientation sign invariance.  After set_door_state(1.0, 1.0) a
\* SingleCabinet's doorhinge holds -pi/2 when it opens left and +pi/2 when it
\* opens right, and get_door_state reports 1 in both cases.
C3_OrientationSign ==
    (fx.kind = "single" /\ call.made /\ call.min = 100 /\ call.max = 100) =>
        /\ fx.orientation = "left" => qpos["doorhinge"] = -(HalfPi * QDen)
        /\ fx.orientation = "right" => qpos["doorhinge"] = HalfPi * QDen
        /\ get_door_state(fx, qpos) = {[part |-> "door", f |-> Rat(1, 1)]}

C3_Witness ==
    /\ fx.kind = "single" /\ fx.orientation = "left"
    /\ call.made /\ call.min = 100 /\ call.max = 100
    /\ qpos["doorhinge"] < 0
    /\ ret.made

\* C4: one set_door_state call of a HingeCabinet applies one sampled fraction
\* to both doors: the left hinge holds the negative of the right hinge's
\* angle and get_door_state reports left_door = right_door.
C4_HingeSymmetric ==
    (fx.kind = "hinge" /\ call.made) =>
        /\ qpos["leftdoorhinge"] = -qpos["rightdoorhinge"]
        /\ \A p1 \in get_door_state(fx, qpos), p2 \in get_door_state(fx, qpos) :
              p1.f = p2.f

----------------------------------------------------------------------------
(* Properties of the bounding sites *)

\* the exterior minimum and maximum and the interior sites on axis k
ExtMin(k) == sites["ext_p0"][k]
ExtMax(k) == sites[<<"ext_px", "ext_py", "ext_pz">>[k]][k]
IntSites == {"int_p0", "int_px", "int_py", "int_pz"}

\* the variants that publish bounding sites
Published == {"single", "hinge", "open", "drawer", "housing"}

\* every interior coordinate lies strictly between the exterior minimum and
\* maximum of its axis, and int_p0 is not beyond int_px / int_py / int_pz
InteriorWithinExterior ==
    /\ \A s \in IntSites, k \in Axes :
          ExtMin(k) < sites[s][k] /\ sites[s][k] < ExtMax(k)
    /\ sites["int_p0"][1] <= sites["int_px"][1]
    /\ sites["int_p0"][2] <= sites["int_py"][2]
    /\ sites["int_p0"][3] <= sites["int_pz"][3]

\* C5 as claimed: interior within exterior for every spec the constructors
\* accept.
C5_InteriorWithinExterior_AnySpec ==
    fx.kind \in Published => InteriorWithinExterior

\* the walls leave room for the cavity: twice the thickness fits in every
\* dimension of a SingleCabinet, HingeCabinet or OpenCabinet; for a Drawer
\* 4 * thickness + 0.002 fits in the width, 3 * thickness in the depth and
\* 3 * thickness + 0.002 in the height; for a HousingCabinet the six resolved
\* paddings are strictly positive
WallsFit ==
    CASE fx.kind \in {"single", "hinge", "open"} ->
            \A k \in Axes : 2 * fx.thickness <= fx.size[k]
      [] fx.kind = "drawer" ->
            /\ 4 * fx.thickness + mm(2) <= fx.size[1]
            /\ 3 * fx.thickness <= fx.size[2]
            /\ 3 * fx.thickness + mm(2) <= fx.size[3]
      [] fx.kind = "housing" ->
            \A k \in Axes : fx.padding[k][1] > 0 /\ fx.padding[k][2] > 0
      [] OTHER -> FALSE

\* C5 (amended): interior within exterior whenever the walls leave room for
\* the cavity (WallsFit), for each variant that publishes bounding sites.
C5_InteriorWithinExterior ==
    (fx.kind \in Published /\ WallsFit) => InteriorWithinExterior

C5_Witness ==
    /\ fx.kind = "drawer"
    /\ fx.size = <<mm(42), mm(30), mm(32)>> /\ fx.thickness = mm(10)
    /\ sites["int_p0"][1] = sites["int_px"][1]
    /\ InteriorWithinExterior

----------------------------------------------------------------------------
(* Properties of the housing cabinet *)

\* the offset of the interior object's origin from the cabinet's position
\* on axis d, doubled: padding[d][0] - padding[d][1]
PaddingAsymmetry(d) == fx.padding[d][1] - fx.padding[d][2]

\* C6: once a HousingCabinet is constructed, and after any set_pos calls, the
\* interior object's origin is the cabinet's current position plus
\* (padding[d][0] - padding[d][1]) / 2 on each axis; the set_pos of the
\* superclass constructor, made while interior_obj is None, does not reach
\* for the interior object.
C6_InteriorFollowsPosition ==
    /\ fx.kind = "housing" =>
          \A d \in Axes : 2 * (interior_origin[d] - pos[d]) = PaddingAsymmetry(d)
    /\ err # "AttributeError"
    /\ (ctor.made /\ fx.kind = "none") => interior_origin = <<>>

C6_Witness ==
    /\ fx.kind = "housing"
    /\ ctor.pos # None
    /\ pos \in PosVals /\ pos # <<0, 0, 0>>
    /\ PaddingAsymmetry(2) # 0
    /\ interior_origin # pos

\* the padding argument given for face (d, side), None if not given
GivenPadding(d, side) ==
    IF ctor.padding = None \/ ctor.padding[d] = None THEN None
    ELSE ctor.padding[d][side]

\* the size argument given for axis d, None if not given
GivenSize(d) == IF ctor.size = None THEN None ELSE ctor.size[d]

\* the deviation of padding[d][0] + padding[d][1] + interior_obj.size[d]
\* from size[d]
PaddingGap(d) ==
    Abs(fx.padding[d][1] + fx.padding[d][2] + fx.interior_size[d] - fx.size[d])

\* C7 as claimed: the resolved values add up to the size within 1e-6.
C7_PaddingConsistency_1e6 ==
    fx.kind = "housing" => \A d \in Axes : PaddingGap(d) <= um(1)

\* C7 (amended): on every axis of an accepted HousingCabinet the resolved
\* paddings and the interior object's size add up to the size within 2e-6
\* (each padding may have been rounded to 0 from a magnitude of up to 1e-6),
\* and exactly when neither padding of the axis was rounded.
C7_PaddingConsistency ==
    fx.kind = "housing" =>
        \A d \in Axes :
            /\ PaddingGap(d) <= 2 * um(1)
            /\ (fx.padding[d][1] # 0 /\ fx.padding[d][2] # 0) => PaddingGap(d) = 0

C7_Witness ==
    /\ fx.kind = "housing"
    /\ GivenSize(1) = Some(FullSize(1))
    /\ GivenPadding(1, 1) = Some(mm(20)) /\ GivenPadding(1, 2) = None
    /\ fx.padding[1] = <<mm(20), mm(20)>>
    /\ GivenSize(2) = None
    /\ GivenPadding(2, 1) = Some(um(1)) /\ fx.padding[2] = <<0, 0>>
    /\ PaddingGap(2) = 2 * um(1)
    /\ GivenSize(3) = Some(FullSize(3)) /\ GivenPadding(3, 1) = None
    /\ GivenPadding(3, 2) = None
    /\ fx.padding[3] = <<mm(20), mm(20)>>

Rejected == err \in {"ValueError", "AssertionError"} /\ fx.kind = "none"

Faces == Axes \X {1, 2}

\* C8 as claimed: a negative padding on any face but the back face
\* (padding[1][1]) is rejected.
C8_NegativeRejected_ExceptBack ==
    ctor.made =>
        \A face \in Faces \ {<<2, 2>>} :
            (GivenPadding(face[1], face[2]) # None
                /\ GivenPadding(face[1], face[2])[1] < 0) => Rejected

\* C8 (amended): a HousingCabinet is rejected when a size is given negative
\* or when a padding below -1e-6 is given on any face but the front face
\* (padding[1][0]); an accepted cabinet has no negative resolved size and no
\* negative resolved padding except possibly on the front face.
C8_NegativeRejected ==
    /\ ctor.made =>
          /\ \A d \in Axes :
                (GivenSize(d) # None /\ GivenSize(d)[1] < 0) => Rejected
          /\ \A face \in Faces \ {<<2, 1>>} :
                (GivenPadding(face[1], face[2]) # None
                    /\ GivenPadding(face[1], face[2])[1] < -um(1)) => Rejected
    /\ fx.kind = "housing" =>
          \A d \in Axes :
             /\ fx.size[d] >= 0
             /\ fx.padding[d][2] >= 0
             /\ d # 2 => fx.padding[d][1] >= 0

C8_Witness ==
    /\ fx.kind = "housing"
    /\ GivenPadding(2, 1) = Some(-mm(10))
    /\ fx.padding[2][1] = -mm(10)
    /\ err = "none"

\* nothing of the fixture has been built
NothingBuilt ==
    /\ fx = NoFixture /\ sites = NoSites /\ joints = NoJoints
    /\ interior_origin = <<>>

\* C9: a HousingCabinet with neither size nor padding, or with an axis whose
\* size is omitted while one of its two paddings is missing, is rejected
\* before anything is built; an accepted axis whose size was omitted has the
\* size padding[d][0] + padding[d][1] + interior_obj.size[d] of the given
\* paddings.
C9_SizeOrPaddingRequired ==
    ctor.made =>
        /\ (ctor.size = None /\ ctor.padding = None) =>
              err = "ValueError" /\ NothingBuilt
        /\ (\E d \in Axes :
               /\ GivenSize(d) = None
               /\ GivenPadding(d, 1) = None \/ GivenPadding(d, 2) = None) =>
              Rejected /\ NothingBuilt
        /\ fx.kind = "housing" =>
              \A d \in Axes :
                 GivenSize(d) = None =>
                    fx.size[d] = GivenPadding(d, 1)[1] + GivenPadding(d, 2)[1]
                                    + fx.interior_size[d]

C9_Witness ==
    /\ ctor.made
    /\ GivenSize(1) # None
    /\ GivenSize(2) = None /\ GivenPadding(2, 1) # None /\ GivenPadding(2, 2) = None
    /\ err = "ValueError"
    /\ NothingBuilt

----------------------------------------------------------------------------
(* Properties of the drawer's slide joint *)

\* 55% of the depth
SlideCap == (fx.size[2] * 55) \div 100

\* C10 as claimed: the declared range of the slide joint is 55% of the depth.
C10_SlideRangeCapped ==
    fx.kind = "drawer" => joints["slidejoint"].range = <<-SlideCap, 0>>

\* C10 (amended): the declared range of the slide joint is the full depth,
\* [-depth, 0]; every value set_door_state writes to the slide joint lies in
\* [-0.55 * depth, 0], hence inside the declared range.
C10_SlideWritesCapped ==
    fx.kind = "drawer" =>
        /\ joints["slidejoint"].range = <<-fx.size[2], 0>>
        /\ -(SlideCap * QDen) <= qpos["slidejoint"]
        /\ qpos["slidejoint"] <= 0
        /\ joints["slidejoint"].range[1] * QDen <= qpos["slidejoint"]
        /\ qpos["slidejoint"] <= joints["slidejoint"].range[2] * QDen

C10_Witness ==
    /\ fx.kind = "drawer"
    /\ call.made /\ call.min = 100 /\ call.max = 100
    /\ qpos["slidejoint"] = -(SlideCap * QDen)
    /\ qpos["slidejoint"] < 0

----------------------------------------------------------------------------
(* Properties of the drawer's update_state *)

\* the interior sites update_state derives once the site positions have been
\* recomputed from the present value of the slide joint
SitesOfPresentJoint ==
    Drawer_update_state(fx.size, fx.thickness, sites, forward(qpos))

\* C11: a forward-kinematics recompute separates every joint write of
\* set_door_state from the site read of a later update_state: whenever
\* update_state has run since the last set_door_state, the interior sites it
\* stored are those of the slide joint value last written, and after
\* set_door_state(1, 1) int_py lies 55% of the depth further out than in the
\* closed drawer
C11_UpdateSeesLastWrite ==
    (fx.kind = "drawer" /\ derived.made) =>
        /\ \A s \in IntSiteNames : sites[s] = SitesOfPresentJoint[s]
        /\ (call.made /\ call.min = 100 /\ call.max = 100) =>
              sites["int_py"][2] =
                  Drawer_sites(fx.size, fx.thickness)["int_py"][2]
                      - Drawer_joint_max(fx.size)

----------------------------------------------------------------------------
(* Properties of the open cabinet's shelves and reset regions *)

\* an open cabinet with at least one shelf has been constructed
Shelved == fx.kind = "open" /\ fx.num_shelves >= 1

\* the centre of shelf k (from 1), times num_shelves, as stored on the
\* fixture and as given to the shelf that was built
ShelfCentre(k) == fx.shelf_z_positions[k]

\* consecutive shelf centres are (height - thickness) / N apart, and every
\* shelf was built at its centre
EvenlySpaced ==
    /\ Len(built.shelves) = fx.num_shelves
    /\ \A k \in 1..fx.num_shelves : built.shelves[k].pos = <<0, 0, ShelfCentre(k)>>
    /\ \A k \in 1..(fx.num_shelves - 1) :
          ShelfCentre(k + 1) - ShelfCentre(k) = fx.size[3] - fx.thickness

\* the first shelf centre is half a thickness above the bottom face -z / 2
FirstShelfAtBottom ==
    ShelfCentre(1) = fx.num_shelves * (fx.thickness \div 2 - fx.size[3] \div 2)

\* C12 as claimed: even spacing, the first shelf centre half a thickness
\* above the bottom face and the last half a thickness below the top face
C12_ShelfLayout_LastAtTop ==
    Shelved =>
        /\ EvenlySpaced
        /\ FirstShelfAtBottom
        /\ ShelfCentre(fx.num_shelves) =
               fx.num_shelves * (fx.size[3] \div 2 - fx.thickness \div 2)

\* C12: for an OpenCabinet with N >= 1 shelves the shelf centres are evenly
\* spaced by (height - thickness) / N, the first shelf centre is half a
\* thickness above the bottom face, and the last shelf centre is one spacing
\* below the point half a thickness under the top face
C12_ShelfLayout ==
    Shelved =>
        /\ EvenlySpaced
        /\ FirstShelfAtBottom
        /\ ShelfCentre(fx.num_shelves) =
               fx.num_shelves * (fx.size[3] \div 2 - fx.thickness \div 2)
                   - (fx.size[3] - fx.thickness)

C12_Witness ==
    /\ Shelved
    /\ fx.num_shelves >= 2
    /\ Len(built.shelves) = fx.num_shelves
    /\ ShelfCentre(2) > ShelfCentre(1)

\* the region of shelf i (from 0), section j (from 1), in the last result of
\* get_reset_regions
RegionAt(i, j) ==
    regions.map[OpenCabinet_region_key(Some(i), SHELF_SECTIONS[j])]

\* the width of a region before the 0.8 shrink
RawWidth(r) == (r.size[1] * 10) \div 8

\* the names shelf_i_section_1..4 for every 0 <= i < N
RegionNames ==
    {OpenCabinet_region_key(Some(i), SHELF_SECTIONS[j]) :
        i \in 0..(fx.num_shelves - 1), j \in 1..Len(SHELF_SECTIONS)}

\* C13: for an OpenCabinet with N shelves get_reset_regions returns exactly
\* the 4 * N regions shelf_i_section_1..4, 0 <= i < N, and on every shelf the
\* four sections at their raw width (before the 0.8 shrink) have equal
\* width, consecutive sections share an edge, the first starts at the inner
\* face of the left wall and the last ends at the inner face of the right
\* wall, so that they cover the usable width (width - 2 * thickness) exactly
C13_ShelfPartitionCoverage ==
    (fx.kind = "open" /\ regions.made) =>
        /\ DOMAIN regions.map = RegionNames
        /\ Cardinality(DOMAIN regions.map) = 4 * fx.num_shelves
        /\ \A i \in 0..(fx.num_shelves - 1) :
              LET w == RawWidth(RegionAt(i, 1))
              IN  /\ \A j \in 1..4 :
                        /\ RegionAt(i, j).size[1] * 10 = 8 * w
                        /\ RawWidth(RegionAt(i, j)) = w
                  /\ \A j \in 1..3 :
                        2 * RegionAt(i, j).offset[1] + w =
                            2 * RegionAt(i, j + 1).offset[1] - w
                  /\ 2 * RegionAt(i, 1).offset[1] - w =
                         -fx.size[1] + 2 * fx.thickness
                  /\ 2 * RegionAt(i, 4).offset[1] + w =
                         fx.size[1] - 2 * fx.thickness
                  /\ 4 * w = fx.size[1] - 2 * fx.thickness

C13_Witness ==
    /\ fx.kind = "open"
    /\ regions.made
    /\ fx.num_shelves >= 2
    /\ fx.size[1] > 2 * fx.thickness
    /\ Cardinality(DOMAIN regions.map) = 4 * fx.num_shelves
    /\ RegionAt(1, 2).offset[1] < RegionAt(1, 3).offset[1]

\* the (shelf_index, section) pair the last sample_reset_region call asked
\* for; a shelf index or section the call does not give is 0 / "section_1"
RequestedShelf == IF sample.shelf_index = None THEN Some(0) ELSE sample.shelf_index
RequestedSection ==
    IF sample.section = None THEN "section_1" ELSE sample.section[1]
RequestedKey == OpenCabinet_region_key(RequestedShelf, RequestedSection)

\* C14: sample_reset_region never fails for a valid spec; when the requested
\* (shelf_index, section) pair is one of the derived regions it returns
\* exactly that region, and when it is not it returns the region of shelf 0,
\* section 1
C14_ResetRegionFallback ==
    (fx.kind = "open" /\ fx.num_shelves >= 1 /\ sample.made) =>
        LET derived_ == OpenCabinet_get_reset_regions(fx)
        IN  /\ err = "none"
            /\ Len(sample.region) = 1
            /\ IF RequestedKey \in DOMAIN derived_
               THEN sample.region[1] = derived_[RequestedKey]
               ELSE sample.region[1] = derived_["shelf_0_section_1"]

----------------------------------------------------------------------------
(* Properties of the doors and shelves built during construction *)

\* the variants whose _create_cab builds doors with _add_door
DoorVariants == {"single", "hinge", "drawer", "panel"}

\* a constructor that builds a door was called with this panel_type
DoorRequested(panel_types) ==
    /\ cab_ctor.made
    /\ cab_ctor.variant \in DoorVariants
    /\ cab_ctor.panel_type \in panel_types

\* panel_type values _add_door has no branch for
Unsupported == PanelTypes \ (PanelStyles \cup {"None", "no_panel"})

\* C15: building a door with a panel style that is not slab (or unset),
\* shaker, raised, divided_window, full_window or no_panel raises an error
\* during construction, before any panel is created or merged, and no
\* fixture object is returned
C15_UnsupportedStyleFailsFast ==
    DoorRequested(Unsupported) =>
        /\ err = "NotImplementedError"
        /\ fx.kind = "none"
        /\ built.panels = <<>>
        /\ built.merged = <<>>
        /\ \A k \in 1..Len(built.appended) :
              built.appended[k].child \in {"_body", "_body_visual"}

C15_Witness ==
    /\ DoorRequested(Unsupported)
    /\ cab_ctor.variant = "hinge"
    /\ err = "NotImplementedError"
    /\ fx.kind = "none"

\* C16 as claimed: a door requested with the no-panel style is an explicit
\* error at build time, construction does not complete
C16_NoPanelDoorIsError ==
    DoorRequested({"no_panel"}) =>
        /\ err # "none"
        /\ fx.kind = "none"

\* C16: a request to add a door while the fixture is configured with the
\* no-panel style is not an error: _add_door returns without building a
\* panel and construction completes without a door
C16_NoPanelDoorIsSkipped ==
    DoorRequested({"no_panel"}) =>
        /\ err = "none"
        /\ fx.kind = cab_ctor.variant
        /\ fx.panel_type = "no_panel"
        /\ built.panels = <<>>
        /\ built.merged = <<>>

C16_Witness ==
    /\ DoorRequested({"no_panel"})
    /\ fx.kind = "drawer"
    /\ built.panels = <<>>
    /\ joints["slidejoint"].range # <<>>

\* the panel and shelf assemblies appended to a parent body, in order (the
\* geoms of the panel cabinet's solid body are not assemblies)
AssembliesAppended ==
    SelectSeq(built.appended, LAMBDA a : a.child \notin {"_body", "_body_visual"})

\* how often the name n occurs in the sequence of names s
Occurrences(s, n) == Cardinality({k \in 1..Len(s) : s[k] = n})

\* the assemblies of the constructed fixture and the parent body of each
ExpectedAssemblies ==
    CASE fx.kind \in DoorVariants /\ fx.panel_type = "no_panel" -> <<>>
      [] fx.kind = "single" -> <<[parent |-> "hingedoor", child |-> "door"]>>
      [] fx.kind = "drawer" -> <<[parent |-> "inner_box", child |-> "door"]>>
      [] fx.kind = "panel" -> <<[parent |-> "root", child |-> "door"]>>
      [] fx.kind = "hinge" ->
            <<[parent |-> "hingeleftdoor", child |-> "left_door"],
              [parent |-> "hingerightdoor", child |-> "right_door"]>>
      [] fx.kind = "open" ->
            [k \in 1..fx.num_shelves |->
                [parent |-> "root", child |-> OpenCabinet_shelf_name(k - 1)]]
      [] OTHER -> <<>>

\* C17: each panel or shelf assembly built during construction is merged
\* into its parent fixture exactly once and appended under exactly one
\* parent body: one door for SingleCabinet, Drawer and PanelCabinet, the two
\* doors left_door and right_door of HingeCabinet each under its own hinge
\* body, N shelves for OpenCabinet, and none when the style is no_panel
C17_MergedExactlyOnce ==
    fx.kind # "none" =>
        /\ AssembliesAppended = ExpectedAssemblies
        /\ Len(built.merged) = Len(ExpectedAssemblies)
        /\ \A k \in 1..Len(ExpectedAssemblies) :
              LET n == ExpectedAssemblies[k].child
              IN  /\ Occurrences(built.merged, n) = 1
                  /\ Cardinality({j \in 1..Len(built.appended) :
                                     built.appended[j].child = n}) = 1
        /\ fx.kind = "hinge" /\ Len(AssembliesAppended) = 2 =>
              AssembliesAppended[1].parent # AssembliesAppended[2].parent

C17_Witness ==
    /\ fx.kind = "hinge"
    /\ built.merged = <<"left_door", "right_door">>
    /\ Len(built.panels) = 2

\* the side of the cabinet on which the joint of the given role is anchored
HingeSide(role) == IF joints[role].pos[1] < 0 THEN "-x" ELSE "+x"

\* the handle position on the side opposite the hinge
OppositeHandle(role) == IF HingeSide(role) = "+x" THEN "left" ELSE "right"

\* the panel built under the given name
PanelNamed(n) == built.panels[CHOOSE k \in 1..Len(built.panels) :
                                  built.panels[k].name = n]

\* C18: the handle is on the side opposite the hinge: for a SingleCabinet
\* orientation "right" has the hinge at +x and the handle "left", orientation
\* "left" the hinge at -x and the handle "right"; for a HingeCabinet the left
\* door (hinge at -x) has its handle on the right and the right door (hinge
\* at +x) on the left; a handle_hpos given in panel_config never changes this
C18_HandleOppositeHinge ==
    /\ (fx.kind = "single" /\ built.panels # <<>>) =>
          /\ HingeSide("doorhinge") = (IF fx.orientation = "right" THEN "+x" ELSE "-x")
          /\ PanelNamed("door").handle_hpos = OppositeHandle("doorhinge")
          /\ PanelNamed("door").handle_hpos =
                 (IF fx.orientation = "right" THEN "left" ELSE "right")
    /\ (fx.kind = "hinge" /\ built.panels # <<>>) =>
          /\ HingeSide("leftdoorhinge") = "-x"
          /\ HingeSide("rightdoorhinge") = "+x"
          /\ PanelNamed("left_door").handle_hpos = "right"
          /\ PanelNamed("right_door").handle_hpos = "left"

C18_Witness ==
    /\ fx.kind = "single"
    /\ fx.orientation = "right"
    /\ cab_ctor.panel_config.handle_hpos = "right"
    /\ built.panels # <<>>
    /\ PanelNamed("door").handle_hpos = "left"

----------------------------------------------------------------------------
(* Publication of the bounding sites *)

\* C19: after the constructor of each of the six variants (single, hinge,
\* open shelving, drawer, panel-only, housing) returns, all eight bounding
\* sites ext_p0, ext_px, ext_py, ext_pz, int_p0, int_px, int_py, int_pz have
\* been set from the spec
C19_SitesPublished ==
    fx.kind # "none" => \A s \in SiteNames : sites[s] # <<>>

----------------------------------------------------------------------------
(* C21: frame of set_door_state and get_door_state *)

\* the joints of the fixture that set_door_state of its class writes
OwnJoints(kind) ==
    CASE kind = "single" -> {"doorhinge"}
      [] kind = "hinge" -> {"leftdoorhinge", "rightdoorhinge"}
      [] kind = "drawer" -> {"slidejoint"}
      [] OTHER -> {}

\* C21: open-ness changes only through set_door_state.  A step that returns
\* a get_door_state result writes no joint; a joint value changes only in an
\* accepted set_door_state call and only if it is one of the fixture's own
\* joints (doorhinge; leftdoorhinge and rightdoorhinge; slidejoint); on
\* OpenCabinet, PanelCabinet and HousingCabinet nothing is ever written and
\* get_door_state returns the empty mapping.
C21_FrameEffect ==
    [][ /\ (ret'.made /\ ret' # ret) => qpos' = qpos
        /\ \A r \in JointRoles :
              qpos'[r] # qpos[r] =>
                  /\ r \in OwnJoints(fx.kind)
                  /\ call'.made /\ ret' = NoRet /\ err' = "none"
        /\ fx'.kind \notin Movable =>
              /\ qpos' = ZeroQpos
              /\ ret'.made => ret'.parts = {} ]_vars

C21_Witness ==
    /\ fx.kind = "hinge" /\ call.made /\ ret.made
    /\ qpos["leftdoorhinge"] # 0 /\ qpos["rightdoorhinge"] # 0
    /\ qpos["doorhinge"] = 0 /\ qpos["slidejoint"] = 0
    /\ {p.part : p \in ret.parts} = {"left_door", "right_door"}

----------------------------------------------------------------------------
(* C22: half-extent symmetry of the walls *)

\* the variants whose housing is made of walls
Walled == {"single", "hinge", "drawer", "housing"}

\* the outer walls of the fixture that exist
OuterWalls ==
    {g \in {"top", "bottom", "back", "left", "right"} : g \in DOMAIN fx.walls.sizes}

\* the axis a wall faces along, and the direction it faces in
OutwardAxis(g) ==
    CASE g \in {"left", "right"} -> 1
      [] g = "back" -> 2
      [] g \in {"top", "bottom"} -> 3

OutwardSign(g) == IF g \in {"left", "bottom"} THEN -1 ELSE 1

\* half of the overall extent of the fixture on axis d
HalfExtent(d) == fx.size[d] \div 2

\* the wall thickness exceeds the overall size on some axis
Flattened == \E d \in Axes : fx.thickness > fx.size[d]

\* C22 as stated: the absolute offset of the centre of each outer wall along
\* its outward axis plus the half-extent of the wall on that axis equals half
\* of the overall extent, for all positive sizes and thicknesses.
C22_HalfExtentSymmetry_Absolute ==
    fx.kind \in Walled =>
        \A g \in OuterWalls :
            Abs(fx.walls.positions[g][OutwardAxis(g)])
              + fx.walls.sizes[g][OutwardAxis(g)] = HalfExtent(OutwardAxis(g))

\* C22, amended: the offset of the centre of each outer wall in its outward
\* direction plus the half-extent of the wall on that axis equals half of the
\* overall extent; the absolute offset does so whenever the wall thickness
\* does not exceed the size on any axis.
C22_HalfExtentSymmetry ==
    fx.kind \in Walled =>
        \A g \in OuterWalls :
            /\ OutwardSign(g) * fx.walls.positions[g][OutwardAxis(g)]
                 + fx.walls.sizes[g][OutwardAxis(g)] = HalfExtent(OutwardAxis(g))
            /\ ~Flattened =>
                 Abs(fx.walls.positions[g][OutwardAxis(g)])
                   + fx.walls.sizes[g][OutwardAxis(g)] = HalfExtent(OutwardAxis(g))

C22_Witness ==
    /\ fx.kind = "drawer"
    /\ Flattened
    /\ OuterWalls = {"top", "bottom", "back", "left", "right"}
    /\ fx.walls.positions["top"][3] < 0

----------------------------------------------------------------------------
(* C23: abutting walls *)

\* the faces of wall g on axis d
LowerFace(g, d) == fx.walls.positions[g][d] - fx.walls.sizes[g][d]
UpperFace(g, d) == fx.walls.positions[g][d] + fx.walls.sizes[g][d]

\* walls a and b share a face plane on some axis
Meet(a, b) ==
    \E d \in Axes : \/ UpperFace(a, d) = LowerFace(b, d)
                    \/ UpperFace(b, d) = LowerFace(a, d)

\* the side walls reach from the upper face of the bottom wall to the lower
\* face of the top wall
SidesSpanHeight ==
    \A s \in {"left", "right"} \cap OuterWalls :
        /\ "bottom" \in OuterWalls => LowerFace(s, 3) = UpperFace("bottom", 3)
        /\ "top" \in OuterWalls => UpperFace(s, 3) = LowerFace("top", 3)

\* the back wall shares a face plane with every other outer wall
BackMeetsOthers ==
    "back" \in OuterWalls => \A g \in OuterWalls \ {"back"} : Meet("back", g)

\* the bottom and top paddings of the housing cabinet differ
UnequalHeightPadding ==
    fx.kind = "housing" /\ fx.padding[3][1] # fx.padding[3][2]

\* C23: abutting walls share exact edges.  In every walled variant the side
\* walls span vertically exactly from the upper face of the bottom wall to
\* the lower face of the top wall, and the back wall meets the side, top and
\* bottom walls without gap or overlap, also for a housing cabinet whose
\* bottom and top paddings differ.
C23_AbuttingWallsShareEdges ==
    fx.kind \in Walled => SidesSpanHeight /\ BackMeetsOthers

\* the part of C23 the code satisfies: every variant but the housing cabinet
\* with unequal bottom and top paddings
C23_AbuttingUnlessUnequalPadding ==
    (fx.kind \in Walled /\ ~UnequalHeightPadding) =>
        SidesSpanHeight /\ BackMeetsOthers

\* a housing cabinet with five walls and positive paddings whose side walls
\* miss the faces of the bottom and top walls
C23_GapAndOverlap ==
    /\ fx.kind = "housing"
    /\ OuterWalls = {"top", "bottom", "back", "left", "right"}
    /\ \A d \in Axes : fx.padding[d][1] > 0 /\ fx.padding[d][2] > 0
    /\ fx.padding[3][1] < fx.padding[3][2]
    /\ LowerFace("left", 3) > UpperFace("bottom", 3)
    /\ UpperFace("left", 3) > LowerFace("top", 3)

----------------------------------------------------------------------------
(* C24: omission of the flat walls of the housing cabinet *)

\* the geoms of wall g in the given group (0 collision, 1 visual)
GeomsOf(g, group) ==
    {i \in 1..Len(fx.geoms) : fx.geoms[i].wall = g /\ fx.geoms[i].group = group}

\* the walls as computed from the size and the padding, before any is removed
ComputedWalls == HousingCabinet_walls(fx.size, fx.padding)

\* wall g has a positive half-extent on every axis
Solid(g) == \A d \in Axes : ComputedWalls.sizes[g][d] > 0

\* C24: wall omission.  Every geom added to the housing cabinet has strictly
\* positive half-extents on all three axes; a wall whose half-extent is zero
\* or negative on some axis has no geom; every other wall has exactly one
\* collision geom and one visual geom, both with its size and position.
C24_WallOmission ==
    fx.kind = "housing" =>
        /\ \A i \in 1..Len(fx.geoms) : \A d \in Axes : fx.geoms[i].size[d] > 0
        /\ \A g \in {"top", "bottom", "back", "left", "right"} :
              IF Solid(g)
              THEN /\ Cardinality(GeomsOf(g, 0)) = 1
                   /\ Cardinality(GeomsOf(g, 1)) = 1
                   /\ \A i \in GeomsOf(g, 0) \cup GeomsOf(g, 1) :
                         /\ fx.geoms[i].size = ComputedWalls.sizes[g]
                         /\ fx.geoms[i].pos = ComputedWalls.positions[g]
              ELSE GeomsOf(g, 0) \cup GeomsOf(g, 1) = {}
        /\ \A i, j \in 1..Len(fx.geoms) :
              fx.geoms[i].name = fx.geoms[j].name => i = j

C24_Witness ==
    /\ fx.kind = "housing"
    /\ ~Solid("bottom") /\ ~Solid("left")
    /\ Solid("top") /\ Solid("back") /\ Solid("right")
    /\ Len(fx.geoms) = 6
    /\ fx.geoms[1].name = "top" /\ fx.geoms[2].name = "top_visual"

----------------------------------------------------------------------------
(* C25: bounding sites of the simple box cabinets *)

SimpleBoxes == {"single", "hinge", "open"}

\* the corners p0, px, py, pz of the box of half-extents h centred on the
\* origin and inset by t on each face
InsetCorners(h, t) ==
    [p0 |-> <<-h[1] + t, -h[2] + t, -h[3] + t>>,
     px |-> <<h[1] - t, -h[2] + t, -h[3] + t>>,
     py |-> <<-h[1] + t, h[2] - t, -h[3] + t>>,
     pz |-> <<-h[1] + t, -h[2] + t, h[3] - t>>]

\* half of the overall size of the fixture
HalfSize == <<fx.size[1] \div 2, fx.size[2] \div 2, fx.size[3] \div 2>>

\* the exterior sites are the corners of the box of the overall size, the
\* interior sites those of the box inset by one wall thickness
SitesFromSize ==
    LET ext == InsetCorners(HalfSize, 0)
        int == InsetCorners(HalfSize, fx.thickness)
    IN  /\ sites["ext_p0"] = ext.p0 /\ sites["ext_px"] = ext.px
        /\ sites["ext_py"] = ext.py /\ sites["ext_pz"] = ext.pz
        /\ sites["int_p0"] = int.p0 /\ sites["int_px"] = int.px
        /\ sites["int_py"] = int.py /\ sites["int_pz"] = int.pz

\* C25: for SingleCabinet, HingeCabinet and OpenCabinet the exterior sites are
\* the corners of the box of the overall size centred on the local origin
\* (plus / minus half the size on each axis) and the interior sites are the
\* exterior sites inset by exactly one full wall thickness on each face.
C25_BoundingSitesFromSize ==
    fx.kind \in SimpleBoxes => SitesFromSize

\* the part of C25 the code satisfies: the two door cabinets
C25_DoorCabinetSitesFromSize ==
    fx.kind \in {"single", "hinge"} => SitesFromSize

\* an open cabinet whose sites span twice its size
C25_OpenCabinetDoubled ==
    /\ fx.kind = "open"
    /\ fx.size = <<mm(600), mm(400), mm(800)>> /\ fx.thickness = mm(30)
    /\ sites["ext_px"] = <<mm(600), -mm(400), -mm(800)>>
    /\ sites["int_p0"] = <<-mm(540), -mm(340), -mm(740)>>

----------------------------------------------------------------------------
(* C26: hinge range and written angles of the single-door cabinet *)

\* the declared range of the left-opening door hinge: [-3.00, 0] rad
LeftHingeRange == <<-30000, 0>>

\* the value of the door hinge lies between lo and hi (in 1e-4 rad)
HingeWithin(lo, hi) ==
    /\ lo * QDen <= qpos["doorhinge"]
    /\ qpos["doorhinge"] <= hi * QDen

\* C26: for a left-opening SingleCabinet the declared range of the hinge is
\* [-3.00, 0] and the hinge is anchored at the left wall, on the front face;
\* every value set_door_state writes for 0 <= min <= max <= 1 lies in
\* [-pi/2, 0], which is inside the declared range.  For a right-opening
\* cabinet every written value lies in [0, pi/2].
C26_HingeRange ==
    fx.kind = "single" =>
        /\ fx.orientation = "left" =>
              /\ joints["doorhinge"].range = LeftHingeRange
              /\ joints["doorhinge"].pos =
                     <<fx.walls.positions["left"][1], -(fx.size[2] \div 2), 0>>
              /\ HingeWithin(-HalfPi, 0)
              /\ HingeWithin(LeftHingeRange[1], LeftHingeRange[2])
        /\ fx.orientation = "right" => HingeWithin(0, HalfPi)

C26_Witness ==
    /\ fx.kind = "single" /\ fx.orientation = "left"
    /\ call.made /\ call.min = 100 /\ call.max = 100
    /\ qpos["doorhinge"] = -HalfPi * QDen

----------------------------------------------------------------------------
(* C27: a rejected set_door_state *)

\* C27: a rejected set_door_state leaves the state unchanged.  On
\* SingleCabinet, HingeCabinet and Drawer a call with min or max outside
\* [0, 1] or with min > max raises AssertionError before any joint is
\* written: the joint values, and what get_door_state reports, are the same
\* after the failed call as before it.
C27_RejectedLeavesState ==
    [][ err' = "AssertionError" =>
            /\ qpos' = qpos
            /\ get_door_state(fx', qpos') = get_door_state(fx, qpos)
            /\ call' = call /\ ret' = ret ]_vars

C27_Witness ==
    /\ fx.kind = "hinge"
    /\ err = "AssertionError"
    /\ call.made /\ call.min = 50 /\ call.max = 100
    /\ qpos["leftdoorhinge"] # 0 /\ qpos["rightdoorhinge"] # 0

----------------------------------------------------------------------------
(* C28: the cavity of the housing cabinet and the wrapped object *)

\* the interior site on the far side of axis d: int_px, int_py, int_pz
IntFar(d) == sites[<<"int_px", "int_py", "int_pz">>[d]]

\* extent of the interior box on axis d, and twice its centre
CavityExtent(d) == IntFar(d)[d] - sites["int_p0"][d]
CavityCentre2(d) == IntFar(d)[d] + sites["int_p0"][d]

\* the centre of the interior box is where _place_interior_obj puts the
\* origin of the interior object, relative to the position of the cabinet
CavityCentred ==
    \A d \in Axes :
        /\ CavityCentre2(d) = PaddingAsymmetry(d)
        /\ CavityCentre2(d) = 2 * (interior_origin[d] - pos[d])

\* C28 as stated: for every accepted construction the extent of the interior
\* box on each axis equals the interior object's size on that axis, and the
\* centre of the interior box equals the offset (padding[d][0] -
\* padding[d][1]) / 2 of the interior object's origin from the cabinet
\* position.
C28_CavityMatchesObject_Exact ==
    fx.kind = "housing" =>
        /\ \A d \in Axes : CavityExtent(d) = fx.interior_size[d]
        /\ CavityCentred

\* C28, amended: the centre of the interior box equals the offset of the
\* interior object's origin; its extent on each axis is size[d] minus the two
\* paddings, which is the interior object's size when neither padding of the
\* axis was rounded to 0 and exceeds or misses it by at most 2e-6 otherwise.
C28_CavityMatchesObject ==
    fx.kind = "housing" =>
        /\ CavityCentred
        /\ \A d \in Axes :
              /\ CavityExtent(d) = fx.size[d] - fx.padding[d][1] - fx.padding[d][2]
              /\ Abs(CavityExtent(d) - fx.interior_size[d]) <= 2 * um(1)
              /\ (fx.padding[d][1] # 0 /\ fx.padding[d][2] # 0) =>
                     CavityExtent(d) = fx.interior_size[d]

C28_Witness ==
    /\ fx.kind = "housing"
    /\ pos # <<0, 0, 0>>
    /\ fx.padding[3] = <<mm(20), mm(40)>>
    /\ CavityCentre2(3) = -mm(20)
    /\ CavityExtent(3) = ObjSize[3]
    /\ fx.padding[2] = <<0, 0>>
    /\ CavityExtent(2) = ObjSize[2] + 2 * um(1)

----------------------------------------------------------------------------
(* C29, C30: the fixture loops of the environment *)

\* the name is listed in open_fixtures, or "fridge" is listed and the name
\* contains fridge_housing, fridge_cab or fridge_top
Listed(n) ==
    \/ n \in env.open_fixtures
    \/ /\ "fridge" \in env.open_fixtures
       /\ \/ Contains(n, "fridge_housing")
          \/ Contains(n, "fridge_cab")
          \/ Contains(n, "fridge_top")

\* the fixture loop ran in the last handler and no set_door_state call raised
PassCompleted ==
    /\ env.made /\ env.ran
    /\ \A i \in 1..Len(env.calls) : ~env.calls[i].raised

\* the open-ness get_door_state reports for the parts of fixture f
Openness(f) == {p.f : p \in get_door_state(f, env.qpos[f.name])}

\* the open-ness of every part of f is in the interval of its last call
OpennessAsListed(e, f) ==
    \A p \in get_door_state(f, e.qpos[f.name]) :
        IF Listed(f.name) THEN RatLE(Pct(98), p.f) /\ RatLE(p.f, Pct(100))
        ELSE RatLE(Pct(0), p.f) /\ RatLE(p.f, Pct(2))

\* C29: when _update_fixture_states, or the fixture step of _reset_internal,
\* has completed without a fixture error, every fixture of
\* all_openable_fixtures has received exactly one set_door_state call, with
\* the interval [0.98, 1.0] if and only if its name is listed in
\* open_fixtures (or "fridge" is listed and the name contains fridge_housing,
\* fridge_cab or fridge_top) and with [0.0, 0.02] otherwise; the open-ness of
\* every movable fixture among them is then >= 0.98 when listed and <= 0.02
\* when not, after any sequence of handlers.
C29_FixtureStatesFollowList ==
    PassCompleted =>
        /\ Len(env.calls) = Len(env.all_openable_fixtures)
        /\ \A i \in 1..Len(env.calls) :
              LET c == env.calls[i]
                  f == env.all_openable_fixtures[i]
              IN  /\ c.name = f.name
                  /\ (c.min = 98 /\ c.max = 100) <=> Listed(f.name)
                  /\ (c.min = 0 /\ c.max = 2) <=> ~Listed(f.name)
                  /\ f.kind \in Movable =>
                        /\ Openness(f) # {}
                        /\ OpennessAsListed(env, f)

C29_Witness ==
    /\ PassCompleted
    /\ env.handler = "update_environment_state"
    /\ env.open_fixtures = {"fridge"}
    /\ Len(env.calls) = 4
    /\ env.qpos["fridge_cab_1"]["leftdoorhinge"] = -HalfPi * QDen
    /\ env.qpos["cab_main_main_group"]["doorhinge"] = -HalfPi * 2 * DrawDen
    /\ env.qpos["fridge_housing_1"] = ZeroQpos
    /\ env.qpos["shelves"] = ZeroQpos

====
